---- MODULE Spec2Model ----
(***************************************************************************)
(* A model of MDT's chunked processing engine                              *)
(* (mdt/processing_strategies.py) and of its cascade fitting               *)
(* (mdt/model_fitting.py).                                                 *)
(*                                                                         *)
(* Spec     : ChunksProcessingStrategy.run with a Fitting- or              *)
(*            SamplingProcessingWorker, repeated runs on one model object, *)
(*            one mask and one output path.                                *)
(* SpecFit  : ModelFit.run / ModelFit._run / fit_single_model over a       *)
(*            (nested) cascade.                                            *)
(* SpecChunk: the body of run's loop (_selected_indices around             *)
(*            _run_on_chunk) for the chunks of any chunking policy, the    *)
(*            empty chunk included.                                        *)
(* SpecCombine: worker.combine with the write-out tasks of pool.map as    *)
(*            interleaved processes.                                       *)
(* SpecStore: ModelProcessingWorker._write_volumes on one parameter file,  *)
(*            with the dtype and width of the arrays.                      *)
(* SpecBatch: BatchFitting.run over the selected subjects and the          *)
(*            configured models.                                           *)
(*                                                                         *)
(* The volume is flattened: cell c of 0..NCells-1 is the c-th cell in      *)
(* numpy's row-major scan order, so np.argwhere(mask) lists the true cells *)
(* in ascending c.  ROI indices are 0-based as in the source.              *)
(***************************************************************************)
EXTENDS Integers, Sequences, FiniteSets, TLC

\* ------------------------------------------------------------------ bounds
NCells == 3
MaxChunk == 2
MaxRuns == 2
MaxFitRuns == 2
MaxWidth == 2
MaxWrites == 2
MaxCalls == 2

Cells == 0 .. (NCells - 1)

\* The output parameters the solver returns (results merged with extra_output).
Params == {"p1", "p2"}
\* The parameters whose sample chains a sampler returns.
SampleParams == {"p1"}

VARIABLES
    mask,          \* problem_data.mask: the set of true cells
    honor,         \* SimpleProcessingStrategy._honor_voxels_to_analyze
    chunkSize,     \* the chunking policy's K
    workerKind,    \* "fit" (FittingProcessingWorker) or "sample"
    storeSamples,  \* SamplingProcessingWorker._store_samples
    pta,           \* model.problems_to_analyze
    initPta,       \* model.problems_to_analyze as the caller set it
    pc,            \* position of ChunksProcessingStrategy.run
    recalculate,   \* the running (or last) run's recalculate argument
    tmpExists,     \* the temporary storage directory exists
    tmpFiles,      \* its .npy files: <<subdir, name>> -> content
    lookupFile,    \* <tmp_storage_dir>_roi_voxel_lookup_table.npy
    outFiles,      \* the destination (output_path): <<subdir, name>> -> content
    totalRoi,      \* total_roi_indices of the run
    chunks,        \* the chunks the generator has not yielded yet
    current,       \* chunk_indices of the loop body
    oldSetting,    \* old_setting of _selected_indices
    voxelsProcessed,
    returnData,    \* what run returned
    runs,          \* number of runs started
    processLog,    \* the chunks worker.process returned for, this run
    combineCalls,  \* worker.combine calls of this run
    startedFresh,  \* this run found no file in the temporary directory
    prev,          \* summary of the run before this one
    startPta,      \* model.problems_to_analyze when run was called
    processResults, \* what worker.process returned, call by call, this run
    raisedIn,      \* where the exception that ended this run was raised
    \* ---- cascade fitting (SpecFit)
    shape,         \* which model (tree) ModelFit was given
    fitRecalc,     \* ModelFit._recalculate
    fitOnlyLast,   \* ModelFit._only_recalculate_last
    protoOK,       \* per single model: is_protocol_sufficient
    outDir,        \* per single model: its output directory
    pos,           \* per cascade: its iteration position
    stack,         \* the activation records of ModelFit._run
    fpc,           \* position of ModelFit.run
    stageLog,      \* the fit_single_model calls of this evaluation
    getNextLog,    \* the get_next calls of this evaluation
    resetLog,      \* the reset calls of this evaluation
    fitRuns,       \* number of evaluations started
    startPos,      \* pos when the evaluation started
    startOut,      \* outDir when the evaluation started
    returnLog,     \* the returns of ModelFit._run in this evaluation
    runReturn,     \* what ModelFit.run returned
    \* ---- one staged parameter file (SpecStore)
    staged,        \* <tmp_dir>/<param_name>.npy: its header and its data
    lastWrite,     \* the last call of _write_volumes
    writes,        \* number of calls so far
    usedCells      \* <tmp_dir>/UsedMask.npy: the cells marked in it

stratVars == <<mask, honor, chunkSize, workerKind, storeSamples, pta, initPta, pc,
               recalculate, tmpExists, tmpFiles, lookupFile, outFiles, totalRoi,
               chunks, current, oldSetting, voxelsProcessed, returnData, runs, processLog,
               combineCalls, startedFresh, prev, startPta, processResults,
               raisedIn>>

fitVars == <<shape, fitRecalc, fitOnlyLast, protoOK, outDir, pos, stack, fpc,
             stageLog, getNextLog, resetLog, fitRuns, startPos, startOut,
             returnLog, runReturn>>

storeVars == <<staged, lastWrite, writes, usedCells>>

VARIABLES
    batchRecalculate, \* BatchFitting(recalculate=...)
    mapEager,         \* map() calls the runner (Python 2) or returns an
                      \* iterator that nothing consumes (Python 3)
    subjects,         \* self._subjects: the selected subjects, in order
    outputDirs,       \* subject -> model -> state of the model's output dir
    protocolOK,       \* subject -> model -> the subject's protocol suffices
    solverFails,      \* the <<subject, model>> whose fit raises an exception
                      \* other than ProtocolProblemError, if any
    bpc,              \* "idle", "running", "done"
    item,             \* index in batch_items of the next subject
    batchLog          \* what the runner did, in order

batchVars == <<batchRecalculate, mapEager, subjects, outputDirs, protocolOK,
               solverFails, bpc, item, batchLog>>

VARIABLES
    taskPc,           \* per write-out task of pool.map: "queued", "loaded",
                      \* "written"
    taskData          \* per task: data, the array it loaded

poolVars == <<taskPc, taskData>>

vars == <<stratVars, fitVars, storeVars, batchVars, poolVars>>

\* ------------------------------------------------------------- helpers
Range(s) == {s[i] : i \in DOMAIN s}

Min(a, b) == IF a < b THEN a ELSE b

\* The elements of a finite set of integers in ascending order.
RECURSIVE SortedSeq(_)
SortedSeq(S) ==
    IF S = {} THEN <<>>
    ELSE LET m == CHOOSE x \in S : \A y \in S : x <= y
         IN  <<m>> \o SortedSeq(S \ {m})

\* model.problems_to_analyze: None, or a list of ROI indices.
NoSelection == [isNone |-> TRUE, idx |-> <<>>]
Selection(s) == [isNone |-> FALSE, idx |-> s]

\* Python truth value of problems_to_analyze: None and the empty list are false.
Truthy(sel) == ~sel.isNone /\ sel.idx # <<>>

\* np.count_nonzero(mask)
CountNonzero(m) == Cardinality(m)

\* np.arange(0, n) as a sequence
Arange(n) == [i \in 1 .. n |-> i - 1]

\* np.argwhere(mask): row r (0-based) is the r-th true cell in scan order.
ArgWhere(m) ==
    LET s == SortedSeq(m)
    IN  [r \in 0 .. (Cardinality(m) - 1) |-> s[r + 1]]

\* mdt.utils.create_roi(volume, mask): the volume's values at the mask's cells.
CreateRoi(vol, m) ==
    LET t == ArgWhere(m)
    IN  [r \in DOMAIN t |-> vol[t[r]]]

\* A freshly created (mode 'w+') memmap: all zero.
ZeroVolume == [c \in Cells |-> 0]

UsedMaskName == "UsedMask"

\* The value the solver returns for ROI voxel r of parameter p.
Solve(p, r) == IF p = "p1" THEN r + 1 ELSE r + 5

\* ------------------------------------------------------------- files
\* A directory's .npy files: <<subdir, name>> -> content.  A volume file holds a
\* value per cell, a sample file a value per ROI voxel.
EmptyFiles == [q \in {} |-> ZeroVolume]

RootDir == ""
VolumeMapsDir == "volume_maps"

SampleName(p) == IF p = "p1" THEN "p1.samples" ELSE "p2.samples"

SampleNames == {SampleName(p) : p \in Params}

\* The value an absent result has.
NoReturn == [kind |-> "none", data |-> EmptyFiles]
SampleChainNotStored == [kind |-> "sentinel", data |-> EmptyFiles]

\* ------------------------------------------------ SimpleProcessingStrategy
\* Faulty variant: recalculate ignored, the directory is kept as it is.
PrepareKeepingFiles(files, rc) == files
\* Faulty variant: the directory is emptied whatever recalculate is.
PrepareWipingAlways(files, rc) == EmptyFiles

\* _prepare_tmp_storage_dir: the files of the temporary directory afterwards.
PrepareTmpStorageDir(files, rc) == IF rc THEN EmptyFiles ELSE files

\* Faulty variant: the chunk's indices are left on the model on every exit.
SelectionKeptAlways(raised, chunk, old) == Selection(chunk)

\* Faulty variant: shutil.rmtree in a finally clause: the directory goes in any case.
TmpDirRemovedAlways(raised) == FALSE

\* Faulty variant: shutil.rmtree forgotten: the directory stays in any case.
TmpDirKeptAlways(raised) == TRUE

\* _tmp_storage_dir leaves its with-block: does the directory still exist?  The
\* generator has no try/finally, so shutil.rmtree runs on a normal exit only.
TmpDirAfterExit(raised) == raised
\* Faulty variant: old_setting put back in a finally clause, on every exit.
SelectionRestoredAlways(raised, chunk, old) == old

\* _selected_indices leaves its with-block: model.problems_to_analyze afterwards.
\* No try/finally either: old_setting is put back on a normal exit only.
SelectionAfterExit(raised, chunk, old) ==
    IF raised THEN Selection(chunk) ELSE old

\* ------------------------------------------------- ModelProcessingWorker
\* Faulty variant: the true cells listed against the scan order.
CreateLookupTableReversed(m) ==
    LET s == SortedSeq(m)
        n == Cardinality(m)
    IN  [exists |-> TRUE, rows |-> [r \in 0 .. (n - 1) |-> s[n - r]]]

\* _create_roi_to_volume_index_lookup_table: the file is removed when present
\* and written again from the mask.
CreateLookupTable(m) == [exists |-> TRUE, rows |-> ArgWhere(m)]

\* Faulty variant: get_voxels_to_compute that never looks at problems_to_analyze.
GetVoxelsIgnoringSelection(sel, files) ==
    LET roiList == Arange(CountNonzero(mask))
        maskPath == <<RootDir, UsedMaskName>>
    IN  IF maskPath \in DOMAIN files
        THEN LET used == CreateRoi(files[maskPath], mask)
                 NotUsed(r) == used[r] = 0
             IN  SelectSeq(roiList, NotUsed)
        ELSE roiList

\* Faulty variant: np.logical_not forgotten, the completed voxels are returned.
GetVoxelsCompletedOnes(sel, files) ==
    LET roiList == IF honor /\ Truthy(sel)
                   THEN sel.idx
                   ELSE Arange(CountNonzero(mask))
        maskPath == <<RootDir, UsedMaskName>>
    IN  IF maskPath \in DOMAIN files
        THEN LET used == CreateRoi(files[maskPath], mask)
                 Used(r) == used[r] # 0
             IN  SelectSeq(roiList, Used)
        ELSE roiList

\* get_voxels_to_compute
GetVoxelsToCompute(sel, files) ==
    LET roiList == IF honor /\ Truthy(sel)
                   THEN sel.idx
                   ELSE Arange(CountNonzero(mask))
        maskPath == <<RootDir, UsedMaskName>>
    IN  IF maskPath \in DOMAIN files
        THEN LET used == CreateRoi(files[maskPath], mask)
                 NotUsed(r) == used[r] = 0
             IN  SelectSeq(roiList, NotUsed)
        ELSE roiList

\* Faulty variant: every file opened with mode 'w+', an existing file is
\* truncated to zeros before the chunk is written.
WriteVolumesTruncating(files, dir, roi, written, maskWritten) ==
    LET vi == lookupFile.rows
        cells == {vi[r] : r \in Range(roi)}
        RoiOf(c) == CHOOSE r \in Range(roi) : vi[r] = c
        paths == {<<dir, p>> : p \in written}
                 \cup (IF maskWritten THEN {<<dir, UsedMaskName>>} ELSE {})
        New(q, c) == IF q[2] = UsedMaskName THEN 1 ELSE Solve(q[2], RoiOf(c))
    IN  [q \in DOMAIN files \cup paths |->
            IF q \in paths
            THEN [c \in Cells |-> IF c \in cells THEN New(q, c) ELSE 0]
            ELSE files[q]]

\* _write_volumes, as far as it got: the files of `written` and, when
\* maskWritten, the UsedMask file, each opened 'r+' when it exists and created
\* zero-filled otherwise, then assigned at the chunk's volume indices.
WriteVolumesUpTo(files, dir, roi, written, maskWritten) ==
    LET vi == lookupFile.rows
        cells == {vi[r] : r \in Range(roi)}
        RoiOf(c) == CHOOSE r \in Range(roi) : vi[r] = c
        paths == {<<dir, p>> : p \in written}
                 \cup (IF maskWritten THEN {<<dir, UsedMaskName>>} ELSE {})
        Old(q) == IF q \in DOMAIN files THEN files[q] ELSE ZeroVolume
        New(q, c) == IF q[2] = UsedMaskName THEN 1 ELSE Solve(q[2], RoiOf(c))
    IN  [q \in DOMAIN files \cup paths |->
            IF q \in paths
            THEN [c \in Cells |-> IF c \in cells THEN New(q, c) ELSE Old(q)[c]]
            ELSE files[q]]

WriteVolumes(files, dir, roi) == WriteVolumesUpTo(files, dir, roi, Params, TRUE)

\* SamplingProcessingWorker._write_sample_results: one file per sampled
\* parameter, a row per ROI voxel of the whole mask.
WriteSampleResults(files, roi) ==
    LET n == CountNonzero(mask)
        paths == {<<RootDir, SampleName(p)>> : p \in SampleParams}
        Old(q) == IF q \in DOMAIN files THEN files[q] ELSE [r \in 0 .. (n - 1) |-> 0]
    IN  [q \in DOMAIN files \cup paths |->
            IF q \in paths
            THEN [r \in 0 .. (n - 1) |->
                    IF r \in Range(roi) THEN Solve("p1", r) ELSE Old(q)[r]]
            ELSE files[q]]

\* The directory a worker stages its volumes (and its UsedMask) in.
StagingDir == IF workerKind = "fit" THEN RootDir ELSE VolumeMapsDir

\* _combine_volumes with _combine_volumes_write_out: every *.npy of
\* <chunks_dir>/<maps_subdir> is written to <output_dir>/<maps_subdir>.
CombineVolumes(out, files, subdir) ==
    LET names == {q \in DOMAIN files : q[1] = subdir}
    IN  [q \in DOMAIN out \cup names |-> IF q \in names THEN files[q] ELSE out[q]]

\* Nifti.read_volume_maps(output_dir) followed by create_roi.
ReadRoiMaps(out) ==
    LET maps == {q \in DOMAIN out : q[1] = RootDir /\ q[2] \notin SampleNames}
    IN  [q \in maps |-> CreateRoi(out[q], mask)]

\* The *.samples.npy files of a directory.
SampleFiles(files) == {q \in DOMAIN files : q[1] = RootDir /\ q[2] \in SampleNames}

\* load_samples(output_dir)
LoadSamples(out) == [q \in SampleFiles(out) |-> out[q]]

\* ---------------------------------------------------- chunking policy
\* Fixed-size chunks of at most k voxels, in the order of the given indices.
RECURSIVE ChunksGenerator(_, _)
ChunksGenerator(roi, k) ==
    IF roi = <<>> THEN <<>>
    ELSE LET n == Min(k, Len(roi))
         IN  <<SubSeq(roi, 1, n)>> \o ChunksGenerator(SubSeq(roi, n + 1, Len(roi)), k)

\* The voxels of a sequence of chunks.
VoxelsOf(cs) == UNION {Range(cs[i]) : i \in DOMAIN cs}

\* ------------------------------------------- one staged parameter file
\* No file at storage_path.
NoFile == [exists |-> FALSE, dtype |-> "none", width |-> 0,
           data |-> [c \in Cells |-> <<>>]]

NoWrite == [staged |-> FALSE, dtype |-> "none", width |-> 0, value |-> 0,
            cells |-> {}, fileDtype |-> "none", fileWidth |-> 0,
            outcome |-> "none", before |-> [c \in Cells |-> <<>>]]

\* The staged file while the strategy or the cascade fitting is studied.
StoreIdle ==
    /\ staged = NoFile
    /\ lastWrite = NoWrite
    /\ writes = 0
    /\ usedCells = {}

BatchIdle ==
    /\ batchRecalculate = FALSE
    /\ mapEager = TRUE
    /\ subjects = <<>>
    /\ outputDirs = <<>>
    /\ protocolOK = <<>>
    /\ solverFails = <<0, "none">>
    /\ bpc = "idle"
    /\ item = 1
    /\ batchLog = <<>>

\* No pool.map under way.
PoolIdle ==
    /\ taskPc = <<>>
    /\ taskData = <<>>

\* Python's None as a fit result.
NoneResult == [of |-> "None", how |-> "none"]

\* ------------------------------------------- ChunksProcessingStrategy.run
NoRun == [status |-> "none", pending |-> {}, log |-> <<>>, candidates |-> {},
          result |-> NoReturn, fresh |-> FALSE]

\* The fit variables while the strategy is studied.
FitIdle ==
    /\ shape = "single"
    /\ fitRecalc = FALSE
    /\ fitOnlyLast = FALSE
    /\ protoOK = <<>>
    /\ outDir = <<>>
    /\ pos = <<>>
    /\ startPos = <<>>
    /\ startOut = <<>>
    /\ stack = <<>>
    /\ fpc = "idle"
    /\ stageLog = <<>>
    /\ getNextLog = <<>>
    /\ resetLog = <<>>
    /\ fitRuns = 0
    /\ returnLog = <<>>
    /\ runReturn = NoneResult

StratInit ==
    /\ mask \in SUBSET Cells
    /\ honor \in BOOLEAN
    /\ chunkSize \in 1 .. MaxChunk
    /\ workerKind \in {"fit", "sample"}
    /\ storeSamples \in (IF workerKind = "sample" THEN BOOLEAN ELSE {FALSE})
    /\ pta \in {NoSelection}
               \cup {Selection(SortedSeq(S)) : S \in SUBSET (0 .. (Cardinality(mask) - 1))}
    /\ initPta = pta
    /\ pc = "idle"
    /\ recalculate = FALSE
    /\ tmpExists = FALSE
    /\ tmpFiles = EmptyFiles
    /\ lookupFile = [exists |-> FALSE, rows |-> ArgWhere({})]
    /\ outFiles = EmptyFiles
    /\ totalRoi = <<>>
    /\ chunks = <<>>
    /\ current = <<>>
    /\ oldSetting = NoSelection
    /\ voxelsProcessed = 0
    /\ returnData = NoReturn
    /\ runs = 0
    /\ processLog = <<>>
    /\ combineCalls = 0
    /\ startedFresh = FALSE
    /\ prev = NoRun
    /\ startPta = NoSelection
    /\ processResults = <<>>
    /\ raisedIn = "none"

Init == StratInit /\ FitIdle /\ StoreIdle /\ BatchIdle /\ PoolIdle

\* run is called: the with-statement prepares the temporary directory, the
\* worker is created (its constructor writes the lookup table) and asked for
\* the voxels to compute, and the chunk generator is set up.
StartRun ==
    /\ pc \in {"idle", "done", "aborted"}
    /\ runs < MaxRuns
    /\ \E rc \in BOOLEAN :
        LET files == PrepareTmpStorageDir(tmpFiles, rc)
            total == GetVoxelsToCompute(pta, files)
        IN  /\ recalculate' = rc
            /\ tmpExists' = TRUE
            /\ tmpFiles' = files
            /\ lookupFile' = CreateLookupTable(mask)
            /\ totalRoi' = total
            /\ chunks' = ChunksGenerator(total, chunkSize)
            /\ startedFresh' = (DOMAIN files = {})
    /\ prev' = [status |-> pc, pending |-> Range(current) \cup VoxelsOf(chunks),
                log |-> processLog, candidates |-> Range(totalRoi),
                result |-> returnData, fresh |-> startedFresh]
    /\ pc' = "chunks"
    /\ current' = <<>>
    /\ voxelsProcessed' = 0
    /\ returnData' = NoReturn
    /\ runs' = runs + 1
    /\ processLog' = <<>>
    /\ combineCalls' = 0
    /\ startPta' = pta
    /\ processResults' = <<>>
    /\ raisedIn' = "none"
    /\ UNCHANGED <<mask, honor, chunkSize, workerKind, storeSamples, pta, initPta,
                   outFiles, oldSetting, fitVars, storeVars, batchVars, poolVars>>

\* The loop takes the next chunk and enters _selected_indices.
EnterChunk ==
    /\ pc = "chunks"
    /\ chunks # <<>>
    /\ current' = Head(chunks)
    /\ chunks' = Tail(chunks)
    /\ oldSetting' = pta
    /\ pta' = Selection(Head(chunks))
    /\ pc' = "process"
    /\ UNCHANGED <<mask, honor, chunkSize, workerKind, storeSamples, initPta,
                   recalculate, tmpExists, tmpFiles, lookupFile, outFiles, totalRoi,
                   voxelsProcessed, returnData, runs, processLog, combineCalls,
                   startedFresh, prev, startPta,
                   processResults, raisedIn, fitVars, storeVars, batchVars, poolVars>>

\* FittingProcessingWorker.process / SamplingProcessingWorker.process: the
\* temporary files after the call returned.
Process(files, roi) ==
    IF workerKind = "fit"
    THEN WriteVolumes(files, RootDir, roi)
    ELSE LET maps == WriteVolumes(files, VolumeMapsDir, roi)
         IN  IF storeSamples THEN WriteSampleResults(maps, roi) ELSE maps

\* What worker.process returns for a chunk: the solver's results (merged with
\* the extra output), the sample chains, or the SampleChainNotStored object.
ProcessResult(roi) ==
    IF workerKind = "fit"
    THEN [kind |-> "maps",
          data |-> [q \in {<<RootDir, p>> : p \in Params} |->
                      [r \in Range(roi) |-> Solve(q[2], r)]]]
    ELSE IF storeSamples
         THEN [kind |-> "samples",
               data |-> [q \in {<<RootDir, SampleName(p)>> : p \in SampleParams} |->
                           [r \in Range(roi) |-> Solve("p1", r)]]]
         ELSE SampleChainNotStored

\* _run_on_chunk: total_processed, the numerator of the progress it logs
\* before it calls worker.process.
TotalProcessed == (CountNonzero(mask) - Len(totalRoi)) + voxelsProcessed

\* _run_on_chunk returns: worker.process wrote the chunk, _selected_indices
\* puts the old selection back and the loop counts the voxels.
ProcessReturn ==
    /\ pc = "process"
    /\ tmpFiles' = Process(tmpFiles, current)
    /\ pta' = SelectionAfterExit(FALSE, current, oldSetting)
    /\ voxelsProcessed' = voxelsProcessed + Len(current)
    /\ processLog' = Append(processLog, current)
    /\ processResults' = Append(processResults, ProcessResult(current))
    /\ current' = <<>>
    /\ pc' = "chunks"
    /\ UNCHANGED <<mask, honor, chunkSize, workerKind, storeSamples, initPta,
                   recalculate, tmpExists, lookupFile, outFiles, totalRoi, chunks,
                   oldSetting, returnData, runs, combineCalls, startedFresh, prev,
                   startPta, raisedIn, fitVars, storeVars, batchVars, poolVars>>
\* Faulty variant: the UsedMask written before the parameter files.
RaisePointsMaskFirst ==
    {<<w, TRUE>> : w \in SUBSET Params}

\* Where worker.process can raise: in the solver (nothing written), in
\* _write_volumes after any of the parameter files (results.items() has no
\* fixed order) and before the UsedMask, or, for a sampling worker that stores
\* samples, in _write_sample_results after the volumes and the UsedMask.
RaisePoints ==
    {<<w, FALSE>> : w \in SUBSET Params}
    \cup (IF workerKind = "sample" /\ storeSamples THEN {<<Params, TRUE>>} ELSE {})

\* worker.process raises: the exception leaves both with-blocks and run.
ProcessRaise ==
    /\ pc = "process"
    /\ tmpExists' = TmpDirAfterExit(TRUE)
    /\ \E pt \in RaisePoints :
        tmpFiles' = IF tmpExists'
                    THEN WriteVolumesUpTo(tmpFiles, StagingDir, current, pt[1], pt[2])
                    ELSE EmptyFiles
    /\ pta' = SelectionAfterExit(TRUE, current, oldSetting)
    /\ pc' = "aborted"
    /\ raisedIn' = "process"
    /\ UNCHANGED <<mask, honor, chunkSize, workerKind, storeSamples, initPta,
                   recalculate, lookupFile, outFiles, totalRoi, chunks, current,
                   oldSetting, voxelsProcessed, returnData, runs, processLog,
                   combineCalls, startedFresh, prev, startPta,
                   processResults, fitVars, storeVars, batchVars, poolVars>>

\* shutil.move(samples, output_dir) raises shutil.Error when output_dir already
\* holds a file of that name.
MoveRaises == \E q \in SampleFiles(tmpFiles) : q \in DOMAIN outFiles

\* The destination after worker.combine(output_path).
CombineOutput ==
    LET maps == CombineVolumes(outFiles, tmpFiles, StagingDir)
        moved == SampleFiles(tmpFiles)
    IN  IF workerKind = "sample" /\ storeSamples /\ ~MoveRaises
        THEN [q \in DOMAIN maps \cup moved |->
                IF q \in moved THEN tmpFiles[q] ELSE maps[q]]
        ELSE maps

\* Faulty variant: a sampling worker that returns the (empty) loaded samples
\* where it stored none.
CombineResultWithoutSentinel(out) ==
    IF workerKind = "fit"
    THEN [kind |-> "maps", data |-> ReadRoiMaps(out)]
    ELSE [kind |-> "samples", data |-> LoadSamples(out)]

\* What worker.combine returns, given the destination it left.
CombineResult(out) ==
    IF workerKind = "fit"
    THEN [kind |-> "maps", data |-> ReadRoiMaps(out)]
    ELSE IF storeSamples
         THEN [kind |-> "samples", data |-> LoadSamples(out)]
         ELSE SampleChainNotStored

\* The generator is exhausted: worker.combine, then the with-block ends and
\* removes the temporary directory, and run returns combine's value.
Combine ==
    /\ pc = "chunks"
    /\ chunks = <<>>
    /\ ~(workerKind = "sample" /\ storeSamples /\ MoveRaises)
    /\ combineCalls' = combineCalls + 1
    /\ outFiles' = CombineOutput
    /\ returnData' = CombineResult(outFiles')
    /\ tmpExists' = TmpDirAfterExit(FALSE)
    /\ tmpFiles' = IF tmpExists' THEN tmpFiles ELSE EmptyFiles
    /\ pc' = "done"
    /\ UNCHANGED <<mask, honor, chunkSize, workerKind, storeSamples, pta, initPta,
                   recalculate, lookupFile, totalRoi, chunks, current, oldSetting,
                   voxelsProcessed, runs, processLog, startedFresh, prev, startPta,
                   processResults, raisedIn, fitVars, storeVars, batchVars, poolVars>>

\* The staged files _combine_volumes finds: glob('<chunks_dir>/<maps_subdir>/*.npy').
StagedMaps(files, subdir) == {q \in DOMAIN files : q[1] = subdir}

\* The destination when only the write-out tasks of `written` have finished.
CombineVolumesUpTo(out, files, written) ==
    [q \in DOMAIN out \cup written |-> IF q \in written THEN files[q] ELSE out[q]]

\* Where worker.combine can raise: in pool.map, when a write-out task raises
\* (here: before any task has written its artifact), or in shutil.move, after
\* all volume maps were written.
CombineRaisePoints ==
    (IF StagedMaps(tmpFiles, StagingDir) # {}
     THEN {[at |-> "maps", written |-> {}]}
     ELSE {})
    \cup (IF workerKind = "sample" /\ storeSamples /\ MoveRaises
          THEN {[at |-> "move", written |-> StagedMaps(tmpFiles, StagingDir)]}
          ELSE {})

\* worker.combine raises: the exception leaves the with-block and run.
CombineRaise ==
    /\ pc = "chunks"
    /\ chunks = <<>>
    /\ combineCalls' = combineCalls + 1
    /\ \E pt \in CombineRaisePoints :
          /\ outFiles' = CombineVolumesUpTo(outFiles, tmpFiles, pt.written)
          /\ raisedIn' = pt.at
    /\ tmpExists' = TmpDirAfterExit(TRUE)
    /\ pc' = "aborted"
    /\ UNCHANGED <<mask, honor, chunkSize, workerKind, storeSamples, pta, initPta,
                   recalculate, tmpFiles, lookupFile, totalRoi, chunks, current,
                   oldSetting, voxelsProcessed, returnData, runs, processLog,
                   startedFresh, prev, startPta,
                   processResults, fitVars, storeVars, batchVars, poolVars>>

Next ==
    \/ StartRun
    \/ EnterChunk
    \/ ProcessReturn
    \/ ProcessRaise
    \/ Combine
    \/ CombineRaise

Spec == Init /\ [][Next]_vars

\* ------------------------------------------------ the loop body by itself
\* A run over the whole mask, inside its with-block, worker created, before
\* the first chunk.
ChunkInit ==
    /\ mask \in SUBSET Cells
    /\ honor = FALSE
    /\ chunkSize = 1
    /\ workerKind \in {"fit", "sample"}
    /\ storeSamples \in (IF workerKind = "sample" THEN BOOLEAN ELSE {FALSE})
    /\ pta = NoSelection
    /\ initPta = NoSelection
    /\ pc = "chunks"
    /\ recalculate = FALSE
    /\ tmpExists = TRUE
    /\ tmpFiles = EmptyFiles
    /\ lookupFile = CreateLookupTable(mask)
    /\ outFiles = EmptyFiles
    /\ totalRoi = GetVoxelsToCompute(NoSelection, EmptyFiles)
    /\ chunks = <<>>
    /\ current = <<>>
    /\ oldSetting = NoSelection
    /\ voxelsProcessed = 0
    /\ returnData = NoReturn
    /\ runs = 1
    /\ processLog = <<>>
    /\ combineCalls = 0
    /\ startedFresh = TRUE
    /\ prev = NoRun
    /\ startPta = NoSelection
    /\ processResults = <<>>
    /\ raisedIn = "none"

InitChunk == ChunkInit /\ FitIdle /\ StoreIdle /\ BatchIdle /\ PoolIdle

\* One pass of the loop of run for a chunk of whatever policy: any ascending
\* list of ROI indices, the empty one too.  _selected_indices sets the
\* selection, _run_on_chunk calls worker.process, the selection is put back
\* and the voxels are counted.
RunOnChunk ==
    /\ pc = "chunks"
    /\ Len(processLog) < MaxCalls
    /\ \E S \in SUBSET (0 .. (CountNonzero(mask) - 1)) :
        LET roi == SortedSeq(S)
        IN  /\ tmpFiles' = Process(tmpFiles, roi)
            /\ pta' = SelectionAfterExit(FALSE, roi, pta)
            /\ oldSetting' = pta
            /\ voxelsProcessed' = voxelsProcessed + Len(roi)
            /\ processLog' = Append(processLog, roi)
            /\ processResults' = Append(processResults, ProcessResult(roi))
    /\ UNCHANGED <<mask, honor, chunkSize, workerKind, storeSamples, initPta, pc,
                   recalculate, tmpExists, lookupFile, outFiles, totalRoi, chunks,
                   current, returnData, runs, combineCalls, startedFresh, prev,
                   startPta, raisedIn, fitVars, storeVars, batchVars, poolVars>>

NextChunk == RunOnChunk

SpecChunk == InitChunk /\ [][NextChunk]_vars

\* ------------------------------------------- worker.combine, task by task
\* A file that an earlier fit left in the destination.
OldMap == <<StagingDir, "old">>

\* A run over the whole mask whose chunks have all been processed, about to
\* call worker.combine; the destination is empty or holds earlier maps.
CombineInit ==
    /\ mask \in SUBSET Cells
    /\ honor = FALSE
    /\ chunkSize = 1
    /\ workerKind \in {"fit", "sample"}
    /\ storeSamples \in (IF workerKind = "sample" THEN BOOLEAN ELSE {FALSE})
    /\ pta = NoSelection
    /\ initPta = NoSelection
    /\ pc = "chunks"
    /\ recalculate = FALSE
    /\ tmpExists = TRUE
    /\ lookupFile = CreateLookupTable(mask)
    /\ totalRoi = GetVoxelsToCompute(NoSelection, EmptyFiles)
    /\ tmpFiles = IF totalRoi = <<>> THEN EmptyFiles ELSE Process(EmptyFiles, totalRoi)
    /\ outFiles \in {EmptyFiles,
                     [q \in StagedMaps(tmpFiles, StagingDir) \cup {OldMap} |-> ZeroVolume]}
    /\ chunks = <<>>
    /\ current = <<>>
    /\ oldSetting = NoSelection
    /\ voxelsProcessed = Len(totalRoi)
    /\ returnData = NoReturn
    /\ runs = 1
    /\ processLog = IF totalRoi = <<>> THEN <<>> ELSE <<totalRoi>>
    /\ combineCalls = 0
    /\ startedFresh = TRUE
    /\ prev = NoRun
    /\ startPta = NoSelection
    /\ processResults = IF totalRoi = <<>> THEN <<>> ELSE <<ProcessResult(totalRoi)>>
    /\ raisedIn = "none"
    /\ PoolIdle

InitCombine == CombineInit /\ FitIdle /\ StoreIdle /\ BatchIdle

\* _combine_volumes up to pool.map: one write-out task per staged *.npy file.
PoolMap ==
    /\ pc = "chunks"
    /\ chunks = <<>>
    /\ combineCalls = 0
    /\ combineCalls' = 1
    /\ taskPc' = [q \in StagedMaps(tmpFiles, StagingDir) |-> "queued"]
    /\ taskData' = [q \in StagedMaps(tmpFiles, StagingDir) |-> <<>>]
    /\ pc' = "combine"
    /\ UNCHANGED <<mask, honor, chunkSize, workerKind, storeSamples, pta, initPta,
                   recalculate, tmpExists, tmpFiles, lookupFile, outFiles, totalRoi,
                   chunks, current, oldSetting, voxelsProcessed, returnData, runs,
                   processLog, startedFresh, prev, startPta, processResults,
                   raisedIn, fitVars, storeVars, batchVars>>

\* Faulty variant: the loaded array kept in a buffer all tasks share.
TaskLoadShared(q) ==
    /\ pc = "combine"
    /\ taskPc[q] = "queued"
    /\ taskData' = [x \in DOMAIN taskData |-> tmpFiles[q]]
    /\ taskPc' = [taskPc EXCEPT ![q] = "loaded"]
    /\ UNCHANGED <<stratVars, fitVars, storeVars, batchVars>>

\* _combine_volumes_write_out for map q: data = np.load(<chunks_dir>/.../q.npy)
TaskLoad(q) ==
    /\ pc = "combine"
    /\ taskPc[q] = "queued"
    /\ taskData' = [taskData EXCEPT ![q] = tmpFiles[q]]
    /\ taskPc' = [taskPc EXCEPT ![q] = "loaded"]
    /\ UNCHANGED <<stratVars, fitVars, storeVars, batchVars>>

\* _combine_volumes_write_out for map q: Nifti.write_volume_maps({q: data}, ...)
TaskWrite(q) ==
    /\ pc = "combine"
    /\ taskPc[q] = "loaded"
    /\ outFiles' = [x \in DOMAIN outFiles \cup {q} |->
                      IF x = q THEN taskData[q] ELSE outFiles[x]]
    /\ taskPc' = [taskPc EXCEPT ![q] = "written"]
    /\ UNCHANGED <<mask, honor, chunkSize, workerKind, storeSamples, pta, initPta, pc,
                   recalculate, tmpExists, tmpFiles, lookupFile, totalRoi,
                   chunks, current, oldSetting, voxelsProcessed, returnData, runs,
                   processLog, combineCalls, startedFresh, prev, startPta,
                   processResults, raisedIn, taskData, fitVars, storeVars, batchVars>>

\* pool.map returns when every task has; combine moves the samples and
\* returns, the with-block removes the temporary directory, run returns.
PoolJoin ==
    /\ pc = "combine"
    /\ \A q \in DOMAIN taskPc : taskPc[q] = "written"
    /\ outFiles' = CombineOutput
    /\ returnData' = CombineResult(outFiles')
    /\ tmpExists' = TmpDirAfterExit(FALSE)
    /\ tmpFiles' = IF tmpExists' THEN tmpFiles ELSE EmptyFiles
    /\ pc' = "done"
    /\ UNCHANGED <<mask, honor, chunkSize, workerKind, storeSamples, pta, initPta,
                   recalculate, lookupFile, totalRoi, chunks, current, oldSetting,
                   voxelsProcessed, runs, processLog, combineCalls, startedFresh, prev,
                   startPta, processResults, raisedIn, poolVars, fitVars, storeVars,
                   batchVars>>

NextCombine ==
    \/ PoolMap
    \/ \E q \in DOMAIN taskPc : TaskLoad(q)
    \/ \E q \in DOMAIN taskPc : TaskWrite(q)
    \/ PoolJoin

SpecCombine == InitCombine /\ [][NextCombine]_vars


\* ------------------------------------------------------ cascade models
\* The models ModelFit is given.  A cascade (mdt.cascade_model) is a list of
\* models, each a single model or a cascade again.
Shapes == {"single", "flat3", "nestFirst", "nestLast"}

Leaves == {"A", "B", "C"}
Cascades == {"K1", "K2"}

\* The model list of cascade c in the given shape.
Children(sh, c) ==
    IF sh = "flat3" /\ c = "K1" THEN <<"A", "B", "C">>
    ELSE IF sh = "nestFirst" /\ c = "K1" THEN <<"K2", "C">>
    ELSE IF sh = "nestFirst" /\ c = "K2" THEN <<"A", "B">>
    ELSE IF sh = "nestLast" /\ c = "K1" THEN <<"A", "K2">>
    ELSE IF sh = "nestLast" /\ c = "K2" THEN <<"B", "C">>
    ELSE <<>>

Root(sh) == IF sh = "single" THEN "A" ELSE "K1"

\* isinstance(model, CascadeModelInterface)
IsCascade(m) == m \in Cascades

\* The cascades and the single models of a shape.
CascadesOf(sh) == {c \in Cascades : Children(sh, c) # <<>>}
LeavesOf(sh) ==
    IF sh = "single" THEN {"A"}
    ELSE UNION {Range(Children(sh, c)) \cap Leaves : c \in CascadesOf(sh)}

\* CascadeModelInterface.has_next
HasNext(p, c) == p[c] < Len(Children(shape, c))

\* CascadeModelInterface.get_next: the model at the iteration position, which
\* moves on by one.
GetNextModel(p, c) == Children(shape, c)[p[c] + 1]
GetNextPos(p, c) == [p EXCEPT ![c] = p[c] + 1]

\* CascadeModelInterface.reset
CascadeReset(p, c) == [p EXCEPT ![c] = 0]

\* ---------------------------------------------------- fit_single_model
\* Faulty variant: the skip decided by os.path.exists(output_path), not by
\* model_output_exists.
FitOutcomeByDirectory(sufficient, recalc, dir) ==
    IF ~sufficient THEN "raised"
    ELSE IF ~recalc /\ dir # "absent" THEN "loaded"
    ELSE "fitted"

\* What fit_single_model does: raise ProtocolProblemError, load and return the
\* existing maps, or call optimizer.minimize and write the output.
FitOutcome(sufficient, recalc, dir) ==
    IF ~sufficient THEN "raised"
    ELSE IF ~recalc /\ dir = "complete" THEN "loaded"
    ELSE "fitted"

\* Faulty variant: shutil.rmtree(output_path) placed before the protocol check.
RemovesOutputBeforeCheck(sufficient, recalc, dir) == recalc /\ dir # "absent"

\* Does fit_single_model reach shutil.rmtree(output_path)?  The protocol check
\* comes first and raises; then recalculate and os.path.exists(output_path).
RemovesOutput(sufficient, recalc, dir) == sufficient /\ recalc /\ dir # "absent"

\* The output directory once fit_single_model is past the recalculate branch.
DirAfterRemove(removed, dir) == IF removed THEN "absent" ELSE dir

\* The model's output directory after fit_single_model.
OutDirAfter(outcome, dir) ==
    IF outcome = "fitted" THEN "complete" ELSE dir

\* ---------------------------------------------------------- ModelFit._run
\* Faulty variant: only_recalculate_last ignored.
SubRecalculateAll(recalc, onlyLast, hasNext) == recalc

\* Faulty variant: the last stage recalculated whenever only_recalculate_last
\* is set, recalculate or not.
SubRecalculateLastAlways(recalc, onlyLast, hasNext) ==
    IF onlyLast THEN ~hasNext ELSE recalc

\* sub_recalculate of the loop body; hasNext is model.has_next() after get_next.
SubRecalculate(recalc, onlyLast, hasNext) ==
    IF recalc
    THEN IF onlyLast THEN ~hasNext ELSE TRUE
    ELSE FALSE

\* results = {}
EmptyResults == [x \in {} |-> NoneResult]

\* results.update({name: r})
ResultsUpdate(res, name, r) ==
    [x \in DOMAIN res \cup {name} |-> IF x = name THEN r ELSE res[x]]

\* An activation record of _run.
Frame(m, recalc, onlyLast) ==
    [model |-> m, recalc |-> recalc, onlyLast |-> onlyLast,
     results |-> EmptyResults, last |-> NoneResult]

Top == stack[Len(stack)]

\* Faulty variant: last_result is set but results.update is forgotten.
ReturnToLosingResults(stk, m, r) ==
    LET rest == SubSeq(stk, 1, Len(stk) - 1)
    IN  IF rest = <<>> THEN rest
        ELSE [rest EXCEPT ![Len(rest)].last = r]

\* _run returns value r for model m: the caller's loop body goes on with
\* results.update({sub_model.name: new_results}) and last_result, or, with no
\* caller left, ModelFit.run ends.
ReturnTo(stk, m, r) ==
    LET rest == SubSeq(stk, 1, Len(stk) - 1)
    IN  IF rest = <<>> THEN rest
        ELSE LET f == rest[Len(rest)]
             IN  [rest EXCEPT ![Len(rest)] =
                    [f EXCEPT !.results = ResultsUpdate(f.results, m, r), !.last = r]]

\* What ModelFit.run returns when _run returned r: the value of the call is
\* dropped, run has no return statement.
RunReturnValue(r) == NoneResult

\* One more return of _run in the log.
LogReturn(log, m, r, d) == Append(log, [model |-> m, value |-> r, depth |-> d])

\* Faulty variant: the loop body catches the error of a stage and goes on.
StackAfterRaiseCaught(stk) == SubSeq(stk, 1, Len(stk) - 1)

\* A ProtocolProblemError leaves fit_single_model: no frame of _run catches it.
StackAfterRaise(stk) == <<>>

\* The strategy variables while the cascade fitting is studied.
StratIdle ==
    /\ mask = {}
    /\ honor = FALSE
    /\ chunkSize = 1
    /\ workerKind = "fit"
    /\ storeSamples = FALSE
    /\ pta = NoSelection
    /\ initPta = NoSelection
    /\ pc = "idle"
    /\ recalculate = FALSE
    /\ tmpExists = FALSE
    /\ tmpFiles = EmptyFiles
    /\ lookupFile = [exists |-> FALSE, rows |-> ArgWhere({})]
    /\ outFiles = EmptyFiles
    /\ totalRoi = <<>>
    /\ chunks = <<>>
    /\ current = <<>>
    /\ oldSetting = NoSelection
    /\ voxelsProcessed = 0
    /\ returnData = NoReturn
    /\ runs = 0
    /\ processLog = <<>>
    /\ combineCalls = 0
    /\ startedFresh = FALSE
    /\ prev = NoRun
    /\ startPta = NoSelection
    /\ processResults = <<>>
    /\ raisedIn = "none"

FitInit ==
    /\ shape \in Shapes
    /\ fitRecalc = FALSE
    /\ fitOnlyLast = FALSE
    /\ protoOK \in [Leaves -> BOOLEAN]
    /\ outDir \in [Leaves -> {"absent", "partial", "complete"}]
    /\ pos = [c \in Cascades |-> 0]
    /\ stack = <<>>
    /\ fpc = "idle"
    /\ stageLog = <<>>
    /\ getNextLog = <<>>
    /\ resetLog = <<>>
    /\ fitRuns = 0
    /\ startPos = pos
    /\ startOut = outDir
    /\ returnLog = <<>>
    /\ runReturn = NoneResult

InitFit == FitInit /\ StratIdle /\ StoreIdle /\ BatchIdle /\ PoolIdle

\* ModelFit(model, ..., recalculate, only_recalculate_last).run()
FitStart ==
    /\ fpc \in {"idle", "returned", "raised"}
    /\ fitRuns < MaxFitRuns
    /\ \E rc \in BOOLEAN, ol \in BOOLEAN :
        /\ fitRecalc' = rc
        /\ fitOnlyLast' = ol
        /\ stack' = <<Frame(Root(shape), rc, ol)>>
    /\ fpc' = "running"
    /\ stageLog' = <<>>
    /\ getNextLog' = <<>>
    /\ resetLog' = <<>>
    /\ fitRuns' = fitRuns + 1
    /\ startPos' = pos
    /\ startOut' = outDir
    /\ returnLog' = <<>>
    /\ runReturn' = NoneResult
    /\ UNCHANGED <<shape, protoOK, outDir, pos, stratVars, storeVars, batchVars, poolVars>>

\* One pass of the while loop up to the recursive call: get_next, the
\* sub_recalculate decision, and _run(sub_model, sub_recalculate, recalculate).
CascadeStep ==
    /\ fpc = "running"
    /\ IsCascade(Top.model)
    /\ HasNext(pos, Top.model)
    /\ LET c == Top.model
           sub == GetNextModel(pos, c)
           p == GetNextPos(pos, c)
           subRecalc == SubRecalculate(Top.recalc, Top.onlyLast, HasNext(p, c))
       IN  /\ pos' = p
           /\ getNextLog' = Append(getNextLog,
                 [cascade |-> c, sub |-> sub, given |-> Top.results,
                  recalc |-> Top.recalc, onlyLast |-> Top.onlyLast,
                  subRecalc |-> subRecalc, depth |-> Len(stack),
                  returnsBefore |-> Len(returnLog)])
           /\ stack' = Append(stack, Frame(sub, subRecalc, Top.recalc))
    /\ UNCHANGED <<shape, fitRecalc, fitOnlyLast, protoOK, outDir, fpc, stageLog,
                   resetLog, fitRuns, startPos, startOut, returnLog, runReturn,
                   stratVars, storeVars, batchVars, poolVars>>

\* Faulty variant: the loop ends and last_result is returned without model.reset().
CascadeReturnWithoutReset ==
    /\ fpc = "running"
    /\ IsCascade(Top.model)
    /\ ~HasNext(pos, Top.model)
    /\ stack' = ReturnTo(stack, Top.model, Top.last)
    /\ returnLog' = LogReturn(returnLog, Top.model, Top.last, Len(stack))
    /\ runReturn' = IF stack' = <<>> THEN RunReturnValue(Top.last) ELSE runReturn
    /\ fpc' = IF stack' = <<>> THEN "returned" ELSE "running"
    /\ UNCHANGED <<shape, fitRecalc, fitOnlyLast, protoOK, outDir, pos, stageLog,
                   getNextLog, resetLog, fitRuns, startPos, startOut, stratVars, storeVars, batchVars, poolVars>>

\* has_next() is false: model.reset() and return last_result.
CascadeReturn ==
    /\ fpc = "running"
    /\ IsCascade(Top.model)
    /\ ~HasNext(pos, Top.model)
    /\ pos' = CascadeReset(pos, Top.model)
    /\ resetLog' = Append(resetLog, Top.model)
    /\ stack' = ReturnTo(stack, Top.model, Top.last)
    /\ returnLog' = LogReturn(returnLog, Top.model, Top.last, Len(stack))
    /\ runReturn' = IF stack' = <<>> THEN RunReturnValue(Top.last) ELSE runReturn
    /\ fpc' = IF stack' = <<>> THEN "returned" ELSE "running"
    /\ UNCHANGED <<shape, fitRecalc, fitOnlyLast, protoOK, outDir, stageLog,
                   getNextLog, fitRuns, startPos, startOut, stratVars, storeVars, batchVars, poolVars>>

\* _run of a single model: _run_single_model and fit_single_model.
SingleModel ==
    /\ fpc = "running"
    /\ ~IsCascade(Top.model)
    /\ LET m == Top.model
           outcome == FitOutcome(protoOK[m], Top.recalc, outDir[m])
           removed == RemovesOutput(protoOK[m], Top.recalc, outDir[m])
           dirAfter == OutDirAfter(outcome, DirAfterRemove(removed, outDir[m]))
       IN  /\ stageLog' = Append(stageLog,
                 [name |-> m, recalc |-> Top.recalc, outcome |-> outcome,
                  sufficient |-> protoOK[m], dir |-> outDir[m],
                  depth |-> Len(stack) - 1, removed |-> removed,
                  dirAfter |-> dirAfter])
           /\ outDir' = [outDir EXCEPT ![m] = dirAfter]
           /\ stack' = IF outcome = "raised"
                       THEN StackAfterRaise(stack)
                       ELSE ReturnTo(stack, m, [of |-> m, how |-> outcome])
           /\ returnLog' = IF outcome = "raised" THEN returnLog
                           ELSE LogReturn(returnLog, m, [of |-> m, how |-> outcome],
                                          Len(stack))
           /\ runReturn' = IF stack' = <<>> /\ outcome # "raised"
                           THEN RunReturnValue([of |-> m, how |-> outcome])
                           ELSE runReturn
           /\ fpc' = IF stack' # <<>> THEN "running"
                     ELSE IF outcome = "raised" THEN "raised" ELSE "returned"
    /\ UNCHANGED <<shape, fitRecalc, fitOnlyLast, protoOK, pos, getNextLog,
                   resetLog, fitRuns, startPos, startOut, stratVars, storeVars, batchVars, poolVars>>

NextFit ==
    \/ FitStart
    \/ CascadeStep
    \/ CascadeReturn
    \/ SingleModel

SpecFit == InitFit /\ [][NextFit]_vars

\* ------------------------------------- _write_volumes, one parameter file
\* The dtypes of a result array.  Numbers are counted in halves (3 is 1.5), so
\* that an integer array holds even numbers only.
Dtypes == {"int", "float"}

\* The values a solver's result array of dtype d holds here.
ArrayValues(d) == IF d = "int" THEN {2, 4} ELSE {1, 3}

\* numpy's conversion on assignment into an array of dtype d: an integer
\* array truncates.
Cast(v, d) == IF d = "int" THEN 2 * (v \div 2) ELSE v

\* open_memmap(storage_path, mode, dtype, shape): mode 'w+' creates a
\* zero-filled file with the given dtype and width, mode 'r+' maps the file
\* as its own header describes it, whatever dtype and shape are passed.
OpenMemmap(file, d, w) ==
    IF file.exists
    THEN file
    ELSE [exists |-> TRUE, dtype |-> d, width |-> w,
          data |-> [c \in Cells |-> [k \in 1 .. w |-> 0]]]

\* tmp_matrix[...] = result_array: an array of width w can be assigned to rows
\* of width fileWidth when the widths are equal or w is 1 (broadcast).
Broadcastable(w, fileWidth) == w = fileWidth \/ w = 1

\* What the assignment does: it stores the values, converted to the file's
\* dtype and repeated over the file's width, or raises numpy's ValueError.
WriteOutcome(file, d, w) ==
    IF Broadcastable(w, file.width) THEN "written" ELSE "ValueError"

\* Faulty variant: a cell that holds a value already keeps it.
AssignRowsKeepingOld(file, cs, v) ==
    [file EXCEPT !.data =
        [c \in Cells |->
            IF c \in cs /\ \A k \in 1 .. file.width : file.data[c][k] = 0
            THEN [k \in 1 .. file.width |-> Cast(v, file.dtype)]
            ELSE file.data[c]]]

AssignRows(file, cs, v) ==
    [file EXCEPT !.data =
        [c \in Cells |->
            IF c \in cs THEN [k \in 1 .. file.width |-> Cast(v, file.dtype)]
            ELSE file.data[c]]]

StoreInit ==
    /\ staged = NoFile
    /\ lastWrite = NoWrite
    /\ writes = 0
    /\ usedCells = {}

InitStore == StoreInit /\ StratIdle /\ FitIdle /\ BatchIdle /\ PoolIdle

\* _write_volumes for the results of one parameter: the result array of dtype
\* d and width w, all its components v, for the chunk's cells cs, and, when
\* the assignment did not raise, the chunk's cells marked in the UsedMask.
WriteResultArray ==
    /\ writes < MaxWrites
    /\ \E d \in Dtypes, w \in 1 .. MaxWidth, cs \in (SUBSET Cells) \ {{}} :
        \E v \in ArrayValues(d) :
            LET file == OpenMemmap(staged, d, w)
                outcome == WriteOutcome(file, d, w)
            IN  /\ staged' = IF outcome = "written" THEN AssignRows(file, cs, v)
                              ELSE file
                /\ lastWrite' = [staged |-> staged.exists, dtype |-> d, width |-> w,
                                 value |-> v, cells |-> cs,
                                 fileDtype |-> file.dtype, fileWidth |-> file.width,
                                 outcome |-> outcome, before |-> staged.data]
                /\ usedCells' = IF outcome = "written" THEN usedCells \cup cs
                                ELSE usedCells
    /\ writes' = writes + 1
    /\ UNCHANGED <<stratVars, fitVars, batchVars, poolVars>>

\* shutil.rmtree of the temporary directory (recalculate, or the end of a
\* run that completed).
RemoveStaged ==
    /\ staged.exists
    /\ staged' = NoFile
    /\ lastWrite' = NoWrite
    /\ usedCells' = {}
    /\ UNCHANGED <<writes, stratVars, fitVars, batchVars, poolVars>>

NextStore ==
    \/ WriteResultArray
    \/ RemoveStaged

SpecStore == InitStore /\ [][NextStore]_vars

\* ========================================================== BatchFitting
\* The subjects the batch profile finds.
NSubjects == 2

\* batch_fitting_config['models'], in the configured order; every one is a
\* single model here, so ModelFit.run is one call of fit_single_model.
BatchModels == <<"BallStick", "Tensor">>

ModelNames == Range(BatchModels)

\* BatchFitting._get_subjects: the subjects of the profile that
\* subjects_ind names, in ascending order here.
GetSubjects(ind) == SortedSeq(ind)

\* model_output_exists(model, output_dir) for one model of one subject.
ModelOutputExists(dirs, m) == dirs[m] = "complete"

\* The test of _BatchFitRunner.__call__ before any data is loaded.
AllOutputExists(dirs) == \A m \in ModelNames : ModelOutputExists(dirs, m)

\* No fit of the batch raises anything but ProtocolProblemError.
NoFailure == <<0, "none">>

\* ModelFit(model, ...).run() for one configured model: fit_single_model's
\* outcome, or "error" when the solver raises another exception.
ModelOutcome(recalc, dir, ok, fails) ==
    LET o == FitOutcome(ok, recalc, dir)
    IN  IF o = "fitted" /\ fails THEN "error" ELSE o

\* The model's output directory afterwards: when the solver raised, the
\* directory was made (after the removal under recalculate) and holds no maps.
ModelDirAfter(recalc, dir, ok, fails) ==
    IF ModelOutcome(recalc, dir, ok, fails) = "error" THEN "partial"
    ELSE OutDirAfter(FitOutcome(ok, recalc, dir), dir)

\* The index of the model at which the loop over the configured models of a
\* subject ends: the first whose outcome is among `stops`, else the last.
LoopEnd(recalc, dirs, ok, fails, stops) ==
    LET hit == {i \in 1 .. Len(BatchModels) :
                   ModelOutcome(recalc, dirs[BatchModels[i]], ok[BatchModels[i]],
                                BatchModels[i] \in fails) \in stops}
    IN  IF hit = {} THEN Len(BatchModels)
        ELSE CHOOSE i \in hit : \A j \in hit : i <= j

\* Faulty variant: the try around the whole loop, the first
\* ProtocolProblemError ends the subject's models.
SubjectOutcomesStoppingAtRaise(s, recalc, dirs, ok, fails) ==
    [i \in 1 .. LoopEnd(recalc, dirs, ok, fails, {"error", "raised"}) |->
        [subject |-> s, model |-> BatchModels[i],
         outcome |-> ModelOutcome(recalc, dirs[BatchModels[i]], ok[BatchModels[i]],
                                  BatchModels[i] \in fails)]]

\* The loop over the configured models: ModelFit(model, ...,
\* recalculate=self._recalculate, only_recalculate_last=False).run() with
\* ProtocolProblemError caught per model; any other exception leaves the loop.
SubjectOutcomes(s, recalc, dirs, ok, fails) ==
    [i \in 1 .. LoopEnd(recalc, dirs, ok, fails, {"error"}) |->
        [subject |-> s, model |-> BatchModels[i],
         outcome |-> ModelOutcome(recalc, dirs[BatchModels[i]], ok[BatchModels[i]],
                                  BatchModels[i] \in fails)]]

\* The subject's output directories after the loop.
SubjectDirsAfter(recalc, dirs, ok, fails) ==
    LET end == LoopEnd(recalc, dirs, ok, fails, {"error"})
    IN  [m \in ModelNames |->
            IF \E i \in 1 .. end : BatchModels[i] = m
            THEN ModelDirAfter(recalc, dirs[m], ok[m], m \in fails)
            ELSE dirs[m]]

BatchInit ==
    /\ batchRecalculate \in BOOLEAN
    /\ mapEager \in BOOLEAN
    /\ \E ind \in SUBSET (1 .. NSubjects) : subjects = GetSubjects(ind)
    /\ outputDirs \in [1 .. NSubjects -> [ModelNames -> {"absent", "complete"}]]
    /\ protocolOK \in [1 .. NSubjects -> [ModelNames -> BOOLEAN]]
    /\ solverFails \in {NoFailure} \cup ((1 .. NSubjects) \X ModelNames)
    /\ bpc = "idle"
    /\ item = 1
    /\ batchLog = <<>>

InitBatch == BatchInit /\ StratIdle /\ FitIdle /\ StoreIdle /\ PoolIdle

\* BatchFitting.run up to and including map(run_func, batch_items).
BatchRun ==
    /\ bpc = "idle"
    /\ bpc' = IF mapEager THEN "running" ELSE "done"
    /\ UNCHANGED <<batchRecalculate, mapEager, subjects, outputDirs, protocolOK,
                   solverFails, item, batchLog, stratVars, fitVars, storeVars,
                   poolVars>>

\* _BatchFitRunner.__call__ returning at 'Skipping subject ..., output exists'.
SubjectSkip ==
    /\ bpc = "running"
    /\ item <= Len(subjects)
    /\ AllOutputExists(outputDirs[subjects[item]])
    /\ batchLog' = Append(batchLog, [subject |-> subjects[item], model |-> "all",
                                     outcome |-> "skipped"])
    /\ item' = item + 1
    /\ UNCHANGED <<batchRecalculate, mapEager, subjects, outputDirs, protocolOK,
                   solverFails, bpc, stratVars, fitVars, storeVars, poolVars>>

\* _BatchFitRunner.__call__ going through the loop over the models; an
\* exception that is not a ProtocolProblemError leaves __call__, map and run.
SubjectFit ==
    /\ bpc = "running"
    /\ item <= Len(subjects)
    /\ ~AllOutputExists(outputDirs[subjects[item]])
    /\ LET s == subjects[item]
           fails == {m \in ModelNames : solverFails = <<s, m>>}
           outs == SubjectOutcomes(s, batchRecalculate, outputDirs[s],
                                   protocolOK[s], fails)
       IN  /\ batchLog' = batchLog \o outs
           /\ outputDirs' = [outputDirs EXCEPT ![s] =
                                SubjectDirsAfter(batchRecalculate, outputDirs[s],
                                                 protocolOK[s], fails)]
           /\ bpc' = IF outs[Len(outs)].outcome = "error" THEN "raised" ELSE bpc
    /\ item' = item + 1
    /\ UNCHANGED <<batchRecalculate, mapEager, subjects, protocolOK, solverFails,
                   stratVars, fitVars, storeVars, poolVars>>

\* BatchFitting.run: return self._subjects.
BatchReturn ==
    /\ bpc = "running"
    /\ item > Len(subjects)
    /\ bpc' = "done"
    /\ UNCHANGED <<batchRecalculate, mapEager, subjects, outputDirs, protocolOK,
                   solverFails, item, batchLog, stratVars, fitVars, storeVars,
                   poolVars>>

NextBatch ==
    \/ BatchRun
    \/ SubjectSkip
    \/ SubjectFit
    \/ BatchReturn

SpecBatch == InitBatch /\ [][NextBatch]_vars

\* ================================================================ claims
\* ---- the processing strategy (Spec)

\* The ROI indices a run is asked for: the model's selection when it is honored
\* and set, every ROI index of the mask otherwise.
CandidateSet(sel) ==
    IF honor /\ Truthy(sel)
    THEN Range(sel.idx)
    ELSE 0 .. (Cardinality(mask) - 1)

\* What one uninterrupted run from a clean temporary directory, with the
\* selection the caller set, stages and returns.
UninterruptedFiles ==
    LET cand == SortedSeq(CandidateSet(initPta))
    IN  IF cand = <<>> THEN EmptyFiles ELSE Process(EmptyFiles, cand)

UninterruptedOutput ==
    LET f == UninterruptedFiles
        taken == {q \in DOMAIN f : q[1] = StagingDir}
                 \cup (IF workerKind = "sample" /\ storeSamples THEN SampleFiles(f) ELSE {})
    IN  [q \in taken |-> f[q]]

UninterruptedReturn == CombineResult(UninterruptedOutput)

C2_AbortKeepsTmpDir ==
    /\ []((pc = "aborted" /\ current # <<>>)
            => (tmpExists /\ combineCalls = 0 /\ returnData = NoReturn))
    /\ [][(pc = "process" /\ pc' = "aborted")
            => (/\ tmpExists'
                /\ combineCalls' = 0
                /\ outFiles' = outFiles
                /\ \A q \in DOMAIN tmpFiles :
                    /\ q \in DOMAIN tmpFiles'
                    /\ \A x \in DOMAIN tmpFiles[q] :
                        (IF q[2] \in SampleNames
                         THEN x \in VoxelsOf(processLog)
                         ELSE x \in {lookupFile.rows[r] : r \in VoxelsOf(processLog)})
                        => tmpFiles'[q][x] = tmpFiles[q][x])]_vars

\* C2 witness: a run aborted in its second (or later) chunk, with the first
\* chunk's results and marks in the temporary directory.
C2_Witness ==
    /\ pc = "aborted"
    /\ current # <<>>
    /\ processLog # <<>>
    /\ tmpExists
    /\ <<StagingDir, UsedMaskName>> \in DOMAIN tmpFiles

\* C3: once process(chunk) has returned, get_voxels_to_compute of a worker on
\* the same temporary directory returns none of that chunk's voxels (both
\* worker variants).
C3_ProcessedNotReturnedAgain ==
    tmpExists
    => Range(GetVoxelsToCompute(pta, tmpFiles)) \cap VoxelsOf(processLog) = {}

CleanStart == \A c \in Cascades : startPos[c] = 0

\* The recalculate flags and the outcomes of the single-model stages, in order.
StageRecalcs == [i \in DOMAIN stageLog |-> stageLog[i].recalc]
StageOutcomes == [i \in DOMAIN stageLog |-> stageLog[i].outcome]
StageNames == [i \in DOMAIN stageLog |-> stageLog[i].name]

\* How often x occurs in sequence s.
Count(s, x) == Cardinality({i \in DOMAIN s : s[i] = x})

\* C6: for the flat cascade A, B, C with all three outputs present, ModelFit
\* with recalculate=true runs A and B with recalc=false (their maps are loaded)
\* and C with recalc=true when only_recalculate_last is set, and all three with
\* recalc=true when it is not.
C6_OnlyRecalculateLastFlat ==
    (/\ fpc = "returned"
     /\ shape = "flat3"
     /\ CleanStart
     /\ fitRecalc
     /\ \A m \in Leaves : startOut[m] = "complete")
    => (/\ StageNames = <<"A", "B", "C">>
        /\ IF fitOnlyLast
           THEN /\ StageRecalcs = <<FALSE, FALSE, TRUE>>
                /\ StageOutcomes = <<"loaded", "loaded", "fitted">>
           ELSE /\ StageRecalcs = <<TRUE, TRUE, TRUE>>
                /\ StageOutcomes = <<"fitted", "fitted", "fitted">>)

\* C6 witness: the flat cascade evaluated with only_recalculate_last.
C6_Witness ==
    /\ fpc = "returned"
    /\ shape = "flat3"
    /\ CleanStart
    /\ fitRecalc
    /\ fitOnlyLast
    /\ \A m \in Leaves : startOut[m] = "complete"
    /\ Len(stageLog) = 3

\* C7: a cascade that is a stage of another cascade and is run with recalc=true
\* runs every one of its own stages with recalc=true; with recalculate=true and
\* only_recalculate_last=false every single-model stage at every depth is run
\* with recalc=true.
C7_NestedRecalculateAll ==
    /\ \A i \in DOMAIN getNextLog :
          (getNextLog[i].depth >= 2 /\ getNextLog[i].recalc)
          => getNextLog[i].subRecalc
    /\ (fitRecalc /\ ~fitOnlyLast)
          => \A i \in DOMAIN stageLog : stageLog[i].recalc

\* C8 (as stated): a single-model stage is skipped (its maps loaded, the solver
\* not invoked) exactly when recalc is false and its output exists; in every
\* other case the solver is invoked.
C8_SkipIffNoRecalcAndExists ==
    \A i \in DOMAIN stageLog :
        LET e == stageLog[i]
        IN  /\ (e.outcome = "loaded") <=> (~e.recalc /\ e.dir = "complete")
            /\ (e.outcome # "loaded") => (e.outcome = "fitted")

\* C8 (amended): for a stage whose protocol is sufficient for the model, the
\* stage is skipped exactly when recalc is false and its output exists, and the
\* solver is invoked in every other case; when the protocol is insufficient
\* fit_single_model raises ProtocolProblemError: nothing is loaded, the solver
\* is not invoked and the output directory is left as it was.
C8_SkipIffNoRecalcAndExistsOrRaise ==
    \A i \in DOMAIN stageLog :
        LET e == stageLog[i]
        IN  /\ e.sufficient =>
                /\ (e.outcome = "loaded") <=> (~e.recalc /\ e.dir = "complete")
                /\ (e.outcome # "loaded") => (e.outcome = "fitted")
            /\ ~e.sufficient => e.outcome = "raised"
            /\ (e.outcome = "fitted" /\ i = Len(stageLog)) => outDir[e.name] = "complete"
            /\ (e.outcome # "fitted" /\ i = Len(stageLog)) => outDir[e.name] = e.dir

\* C8 witness: an evaluation with a loaded stage and a fitted stage whose
\* output directory existed without the complete output.
C8_Witness ==
    /\ \E i \in DOMAIN stageLog : stageLog[i].outcome = "loaded"
    /\ \E i \in DOMAIN stageLog :
          /\ stageLog[i].outcome = "fitted"
          /\ ~stageLog[i].recalc
          /\ stageLog[i].dir = "partial"

\* C9 (as stated): a ProtocolProblemError of one stage of a cascade does not
\* abort the evaluation of the cascade: the stage is skipped and the evaluation
\* goes on with the remaining stages.
C9_StageErrorSkipsStage ==
    (shape # "single" /\ \E i \in DOMAIN stageLog : stageLog[i].outcome = "raised")
    => fpc # "raised"

\* C9 (amended): a ProtocolProblemError of one stage of a cascade is not caught
\* by ModelFit._run: it ends the whole evaluation at once, no later stage is
\* fetched or run, and the cascades that were being evaluated are not reset but
\* left at the position they had reached.
C9_StageErrorAbortsCascade ==
    \A i \in DOMAIN stageLog :
        stageLog[i].outcome = "raised"
        => (/\ i = Len(stageLog)
            /\ fpc = "raised"
            /\ stack = <<>>
            /\ getNextLog # <<>> =>
                  /\ getNextLog[Len(getNextLog)].sub = stageLog[i].name
                  /\ \A j \in DOMAIN getNextLog :
                        getNextLog[j].depth <= stageLog[i].depth
                        /\ (\A k \in (j + 1) .. Len(getNextLog) :
                               getNextLog[k].depth > getNextLog[j].depth)
                        => (/\ getNextLog[j].cascade \notin Range(resetLog)
                            /\ pos[getNextLog[j].cascade] > 0))

\* C9 witness: the second stage of a cascade raised after the first was run,
\* with a third stage left.
C9_Witness ==
    /\ fpc = "raised"
    /\ shape = "flat3"
    /\ Len(stageLog) = 2
    /\ stageLog[2].outcome = "raised"
    /\ pos["K1"] = 2

\* How often _run was called for cascade c in this evaluation.
TimesRun(c) ==
    (IF c = Root(shape) THEN 1 ELSE 0)
    + Cardinality({i \in DOMAIN getNextLog : getNextLog[i].sub = c})

\* C10: a cascade evaluated to its end is reset exactly once: reset is called
\* only when has_next() is false, so after the last stage and never between
\* two stages, it puts the cascade back at its first stage, and in an
\* evaluation that returns every cascade that was run was reset exactly once.
C10_ResetOnceAtEnd ==
    /\ [][resetLog' # resetLog /\ resetLog' # <<>>
            => \E c \in Cascades :
                  /\ resetLog' = Append(resetLog, c)
                  /\ pos[c] = Len(Children(shape, c))
                  /\ pos'[c] = 0
                  /\ Top.model = c
                  /\ stack' = <<>> \/ Len(stack') = Len(stack) - 1]_vars
    /\ [](fpc = "returned"
            => \A c \in CascadesOf(shape) :
                  /\ Count(resetLog, c) = TimesRun(c)
                  /\ TimesRun(c) > 0 => (TimesRun(c) = 1 /\ pos[c] = 0))

\* C10 witness: a nested cascade and its parent, both evaluated and reset.
C10_Witness ==
    /\ fpc = "returned"
    /\ shape = "nestFirst"
    /\ resetLog = <<"K2", "K1">>
    /\ Len(stageLog) = 3
    /\ pos = [c \in Cascades |-> 0]

\* The get_next calls of cascade c in this evaluation, as indices of getNextLog.
StepsOf(c) == {i \in DOMAIN getNextLog : getNextLog[i].cascade = c}

\* C11: each get_next call of a cascade is passed the results of exactly the
\* stages of that cascade completed before it in this evaluation, keyed by
\* stage name; the value _run returns for a cascade is the value its last
\* stage returned (None when no stage was left to run), and in an evaluation
\* that started with the cascades at their first stage that is the last model
\* of the cascade's list and its value is a result, not None.
C11_GetNextGivenPriorResults ==
    /\ \A i \in DOMAIN getNextLog :
          LET e == getNextLog[i]
              done == {j \in 1 .. e.returnsBefore :
                          /\ returnLog[j].depth = e.depth + 1
                          /\ returnLog[j].model \in Range(Children(shape, e.cascade))}
          IN  /\ DOMAIN e.given = {returnLog[j].model : j \in done}
              /\ \A j \in done : e.given[returnLog[j].model] = returnLog[j].value
              /\ Cardinality(done) = Cardinality(StepsOf(e.cascade) \cap (1 .. (i - 1)))
    /\ \A k \in DOMAIN returnLog :
          LET c == returnLog[k].model
              steps == StepsOf(c)
          IN  IsCascade(c) =>
                IF steps = {}
                THEN returnLog[k].value = NoneResult
                ELSE LET l == CHOOSE i \in steps : \A j \in steps : j <= i
                         lastStage == getNextLog[l].sub
                     IN  /\ k > 1
                         /\ returnLog[k - 1].model = lastStage
                         /\ returnLog[k].value = returnLog[k - 1].value
                         /\ CleanStart =>
                               /\ lastStage = Children(shape, c)[Len(Children(shape, c))]
                               /\ returnLog[k].value # NoneResult

\* C11 witness: the flat cascade returned; its third get_next call was given
\* the results of A and B, and the cascade's value is the result of C.
C11_Witness ==
    /\ fpc = "returned"
    /\ shape = "flat3"
    /\ Len(getNextLog) = 3
    /\ DOMAIN getNextLog[3].given = {"A", "B"}
    /\ getNextLog[3].given["A"].of = "A"
    /\ returnLog[Len(returnLog)].model = "K1"
    /\ returnLog[Len(returnLog)].value.of = "C"

\* C12: ModelFit.run returns the result maps of the model it ran (for a
\* cascade those of its last stage), loaded from file when recalculate is
\* false and the maps exist.
C12_RunReturnsResultMaps ==
    (fpc = "returned" /\ returnLog # <<>>)
    => (/\ runReturn = returnLog[Len(returnLog)].value
        /\ (shape = "single" /\ ~fitRecalc /\ startOut["A"] = "complete")
              => runReturn = [of |-> "A", how |-> "loaded"])

\* ---- the processing strategy, continued (Spec)

EmptyMaskRun ==
    /\ [](mask = {} =>
            /\ pc \in {"idle", "chunks", "done"}
            /\ processLog = <<>>
            /\ pc # "idle" =>
                  (lookupFile.exists /\ DOMAIN lookupFile.rows = {}
                     /\ totalRoi = <<>> /\ chunks = <<>>)
            /\ pc = "done" => (combineCalls = 1 /\ ~tmpExists))
    /\ [][(mask = {} /\ pc = "chunks") => pc' = "done"]_vars

\* C14 (as stated): for a mask with zero true voxels run builds a zero-row
\* lookup table, goes from planning straight to combine with no process call,
\* deletes the temporary directory and returns an empty result without raising.
C14_EmptyMaskEmptyResult ==
    /\ EmptyMaskRun
    /\ []((mask = {} /\ pc = "done") =>
            (returnData.kind \in {"maps", "samples"} /\ DOMAIN returnData.data = {}))

\* C14 (amended): as stated, but what run returns is what combine returns for
\* an empty staging area: an empty result for a fitting worker and for a
\* sampling worker that stores its samples, and the SampleChainNotStored
\* object (which is not an empty result) for a sampling worker that does not.
C14_EmptyMaskCombineResult ==
    /\ EmptyMaskRun
    /\ []((mask = {} /\ pc = "done") =>
            IF workerKind = "sample" /\ ~storeSamples
            THEN returnData = SampleChainNotStored
            ELSE returnData.kind \in {"maps", "samples"} /\ DOMAIN returnData.data = {})

\* C14 witness: a sampling run without stored samples over the empty mask
\* returned.
C14_Witness ==
    /\ mask = {}
    /\ pc = "done"
    /\ workerKind = "sample"
    /\ ~storeSamples
    /\ returnData = SampleChainNotStored
    /\ ~tmpExists

\* The chunks of the running (or last) run, in the order the planner issued
\* them: those processed, the one in the loop body, those not yet yielded.
Plan == processLog \o (IF current = <<>> THEN <<>> ELSE <<current>>) \o chunks

\* The lengths of a sequence of chunks.
Sizes(cs) == [i \in DOMAIN cs |-> Len(cs[i])]

\* The fixed-size planner over the N voxels get_voxels_to_compute returned,
\* with chunk size K: ascending ROI indices, chunks of K voxels with one last
\* chunk of N mod K when that is not zero, no empty chunk.
FixedSizePlan ==
    LET n == Len(totalRoi)
        k == chunkSize
        full == n \div k
    IN  /\ \A i \in 1 .. (n - 1) : totalRoi[i] < totalRoi[i + 1]
        /\ Len(Plan) = full + (IF n % k = 0 THEN 0 ELSE 1)
        /\ \A i \in DOMAIN Plan :
              /\ Plan[i] # <<>>
              /\ Len(Plan[i]) = (IF i <= full THEN k ELSE n % k)
              /\ \A j \in DOMAIN Plan[i] : Plan[i][j] = totalRoi[(i - 1) * k + j]
        /\ Sizes(ChunksGenerator(Arange(10), 4)) = <<4, 4, 2>>

\* C15: the fixed-size planner issues the N remaining voxels in ascending
\* ROI-index order in chunks of size K with one last chunk of N mod K when that
\* is not zero, never an empty chunk; once all chunks of the plan were
\* processed, get_voxels_to_compute over the same voxels returns none.
C15_FixedSizePlanThenNoneRemain ==
    /\ pc # "idle" => FixedSizePlan
    /\ (pc = "chunks" /\ chunks = <<>> /\ processLog # <<>>)
          => GetVoxelsToCompute(pta, tmpFiles) = <<>>

\* C16: with recalculate=true the temporary directory and any completed-voxel
\* mask in it are wiped before the voxels to compute are determined: the run
\* starts on an empty directory and computes every voxel of its candidate set
\* (the model's selection when honored and set, else all ROI indices),
\* whatever earlier runs persisted.
C16_RecalculateWipes ==
    /\ [][(runs' = runs + 1 /\ recalculate')
            => (/\ tmpExists'
                /\ tmpFiles' = EmptyFiles
                /\ startedFresh'
                /\ Range(totalRoi') = CandidateSet(pta)
                /\ VoxelsOf(chunks') = CandidateSet(pta))]_vars
    /\ []((pc = "done" /\ recalculate) => VoxelsOf(processLog) = CandidateSet(pta))

\* C16 witness: a run with recalculate=true completed after a run that had
\* persisted a chunk and was aborted; it computed that chunk's voxels again.
C16_Witness ==
    /\ pc = "done"
    /\ recalculate
    /\ prev.status = "aborted"
    /\ prev.log # <<>>
    /\ VoxelsOf(prev.log) \subseteq VoxelsOf(processLog)
    /\ Cardinality(VoxelsOf(processLog)) >= 2

\* C17: after a run that completed, nothing of its temporary state is left on
\* disk: the staged parameter files, the completed-voxel mask and the ROI
\* lookup file are all in the temporary directory and are all deleted.
C17_NoTemporaryStateRemains ==
    pc = "done" => (~tmpExists /\ tmpFiles = EmptyFiles /\ ~lookupFile.exists)

\* C18: problems_to_analyze is the chunk's indices exactly while worker.process
\* runs; between chunks, during combine and after run returned it is what it
\* was when run was called.
C18_SelectionScopedToChunk ==
    /\ pc = "process" => pta = Selection(current)
    /\ pc \in {"chunks", "done"} => pta = startPta

\* C18 witness: a run over a model with a selection of its own returned after
\* two chunks, the selection back in place.
C18_Witness ==
    /\ pc = "done"
    /\ Truthy(startPta)
    /\ Len(processLog) >= 2
    /\ pta = startPta
    /\ pta # Selection(processLog[Len(processLog)])

\* The steps run takes from one position to the next.
PhaseSteps ==
    {<<"idle", "chunks">>, <<"done", "chunks">>, <<"aborted", "chunks">>,
     <<"chunks", "process">>, <<"process", "chunks">>, <<"chunks", "done">>,
     <<"process", "aborted">>, <<"chunks", "aborted">>}

\* C19: a run goes through preparation and planning, zero or more chunks,
\* combine, done, in that order: worker.combine is called at most once and only
\* after worker.process returned for every chunk of the plan, the temporary
\* directory is removed only once combine returned, and run returns what
\* combine returned.
C19_PhaseOrder ==
    /\ [][pc' # pc => <<pc, pc'>> \in PhaseSteps]_vars
    /\ [](combineCalls <= 1)
    /\ [](combineCalls = 1 =>
            /\ chunks = <<>>
            /\ current = <<>>
            /\ processLog = ChunksGenerator(totalRoi, chunkSize))
    /\ [][(combineCalls' # combineCalls /\ combineCalls' # 0) => pc = "chunks"]_vars
    /\ [][(tmpExists /\ ~tmpExists')
            => (combineCalls = 0 /\ combineCalls' = 1 /\ pc' = "done")]_vars
    /\ [](pc = "done" =>
            /\ combineCalls = 1
            /\ ~tmpExists
            /\ returnData = CombineResult(outFiles))

\* C19 witness: a run of two chunks that combined and returned maps.
C19_Witness ==
    /\ pc = "done"
    /\ Len(processLog) >= 2
    /\ combineCalls = 1
    /\ returnData.kind = "maps"
    /\ DOMAIN returnData.data # {}

\* ---- the staged parameter file (SpecStore)

\* C20: a write for a parameter that is already staged, with a result array
\* whose dtype or width differs from the staged file's, raises a StorageError;
\* the values are never silently converted to the staged dtype or shape.
C20_ConflictRaisesStorageError ==
    (/\ lastWrite.staged
     /\ lastWrite.dtype # lastWrite.fileDtype \/ lastWrite.width # lastWrite.fileWidth)
    => lastWrite.outcome = "StorageError"

\* ---- the processing strategy, its worker and its store (Spec)

\* The file get_voxels_to_compute looks for.
MaskPath == <<RootDir, UsedMaskName>>

\* The candidate ROI indices get_voxels_to_compute starts from.
RoiList(sel) == IF honor /\ Truthy(sel) THEN sel.idx ELSE Arange(CountNonzero(mask))

C23_HonoredSelectionIsCandidateSet ==
    tmpExists =>
        LET res == GetVoxelsToCompute(pta, tmpFiles)
        IN  IF honor /\ ~pta.isNone
            THEN /\ Range(res) \subseteq Range(pta.idx)
                 /\ MaskPath \notin DOMAIN tmpFiles => res = pta.idx
            ELSE MaskPath \notin DOMAIN tmpFiles => res = Arange(CountNonzero(mask))

\* The volume cells of a list of ROI indices.
CellsOf(roi) == {lookupFile.rows[r] : r \in Range(roi)}

\* C24: writing a chunk changes the staged value of each parameter and the
\* completed mark only at the cells of the chunk's voxels: every other cell of
\* every staged file keeps its value (zero in a file the write created), no
\* file is lost or truncated, and after a write that completed the chunk's
\* cells hold the chunk's results and are marked.
C24_ScatterWriteFrame ==
    [][(pc = "process" /\ pc' # "process")
        => (/\ DOMAIN tmpFiles \subseteq DOMAIN tmpFiles'
            /\ \A q \in DOMAIN tmpFiles' :
                  LET untouched == IF q[2] \in SampleNames
                                   THEN DOMAIN tmpFiles'[q] \ Range(current)
                                   ELSE Cells \ CellsOf(current)
                  IN  \A x \in untouched :
                        tmpFiles'[q][x] = IF q \in DOMAIN tmpFiles THEN tmpFiles[q][x] ELSE 0
            /\ pc' = "chunks" =>
                  \A r \in Range(current) :
                     /\ tmpFiles'[<<StagingDir, UsedMaskName>>][lookupFile.rows[r]] = 1
                     /\ \A p \in Params :
                           tmpFiles'[<<StagingDir, p>>][lookupFile.rows[r]] = Solve(p, r))]_vars

\* C24 witness: two chunks written, the first chunk's values and marks still
\* in the staged files.
C24_Witness ==
    /\ pc = "chunks"
    /\ Len(processLog) = 2
    /\ \A r \in Range(processLog[1]) :
          /\ tmpFiles[<<StagingDir, UsedMaskName>>][lookupFile.rows[r]] = 1
          /\ tmpFiles[<<StagingDir, "p1">>][lookupFile.rows[r]] = Solve("p1", r)

\* The loop of run over a sequence of chunks: the staged files after
\* worker.process returned for each of them in turn.
RECURSIVE ProcessAll(_, _)
ProcessAll(files, cs) ==
    IF cs = <<>> THEN files
    ELSE ProcessAll(Process(files, Head(cs)), Tail(cs))

\* The orders of n things.
Perms(n) == {f \in [1 .. n -> 1 .. n] : \A i, j \in 1 .. n : f[i] = f[j] => i = j}

\* C26: the chunks of a plan are pairwise disjoint and the solver's value for
\* a voxel is the same in any chunk, and the staged files and the completed
\* mask after processing all of them are the same for every order in which
\* they are processed.
C26_ChunkOrderIrrelevant ==
    pc = "chunks" =>
        /\ \A i, j \in DOMAIN chunks :
              i # j => Range(chunks[i]) \cap Range(chunks[j]) = {}
        /\ \A f \in Perms(Len(chunks)) :
              ProcessAll(tmpFiles, [i \in DOMAIN chunks |-> chunks[f[i]]])
                 = ProcessAll(tmpFiles, chunks)

\* C26 witness: a plan of two or more chunks about to be processed over
\* staged files of an earlier run.
C26_Witness ==
    /\ pc = "chunks"
    /\ processLog = <<>>
    /\ Len(chunks) >= 2
    /\ DOMAIN tmpFiles # {}

\* C27: the ROI lookup table is a bijection between 0..N-1 and the true cells
\* of the mask in scan order, lookup[r] being the true cell with exactly r true
\* cells before it; building it again from the same mask over the file an
\* earlier build left gives the same table.
C27_LookupBijection ==
    /\ [](lookupFile.exists =>
            LET t == lookupFile.rows
            IN  /\ DOMAIN t = 0 .. (Cardinality(mask) - 1)
                /\ {t[r] : r \in DOMAIN t} = mask
                /\ \A r \in DOMAIN t : Cardinality({c \in mask : c < t[r]}) = r
                /\ \A c \in mask : \E r \in DOMAIN t :
                      t[r] = c /\ \A r2 \in DOMAIN t : t[r2] = c => r2 = r)
    /\ [][(lookupFile.exists /\ runs' = runs + 1)
            => (lookupFile'.exists /\ lookupFile'.rows = lookupFile.rows)]_vars

\* C27 witness: the table built a second time, for a mask of two or more true
\* cells with a false cell before the last of them.
C27_Witness ==
    /\ runs = 2
    /\ lookupFile.exists
    /\ Cardinality(mask) >= 2
    /\ \E c \in Cells \ mask : \E d \in mask : c < d

\* The names of the volume files of a directory of files.
MapNames(files, dir) == {q[2] : q \in {x \in DOMAIN files : x[1] = dir /\ x[2] \notin SampleNames}}

\* C28: the maps combine writes to the destination, and the keys of the result
\* a FittingProcessingWorker returns, are exactly the names of the output
\* parameters process persisted; no other staged file, such as the
\* completed-voxel mask, is emitted.
C28_CombineEmitsParametersOnly ==
    (pc = "done" /\ processLog # <<>>)
    => (/\ MapNames(outFiles, StagingDir) = Params
        /\ workerKind = "fit" => {q[2] : q \in DOMAIN returnData.data} = Params)

\* C29: a SamplingProcessingWorker stages the volume maps of every chunk it
\* processed; with store_samples=false no sample-chain file ever exists in the
\* temporary directory or the destination; with store_samples=true combine
\* (when no write-out task of it failed) moves every sample-chain file to the
\* destination and returns the samples loaded from there.
C29_SamplesOnlyWhenStored ==
    workerKind = "sample" =>
        /\ (tmpExists /\ pc # "aborted") =>
              \A r \in VoxelsOf(processLog), p \in Params :
                 /\ <<VolumeMapsDir, p>> \in DOMAIN tmpFiles
                 /\ tmpFiles[<<VolumeMapsDir, p>>][lookupFile.rows[r]] = Solve(p, r)
        /\ ~storeSamples => (SampleFiles(tmpFiles) = {} /\ SampleFiles(outFiles) = {})
        /\ (storeSamples /\ combineCalls = 1 /\ raisedIn # "maps") =>
              /\ pc = "done"
              /\ SampleFiles(tmpFiles) = {}
              /\ returnData = [kind |-> "samples", data |-> LoadSamples(outFiles)]
              /\ processLog # <<>> =>
                    \A p \in SampleParams, r \in VoxelsOf(processLog) :
                       /\ <<RootDir, SampleName(p)>> \in DOMAIN outFiles
                       /\ outFiles[<<RootDir, SampleName(p)>>][r] = Solve(p, r)

\* The voxels marked in the completed-voxel mask the worker staged.
MarkedCells ==
    IF <<StagingDir, UsedMaskName>> \in DOMAIN tmpFiles
    THEN {c \in Cells : tmpFiles[<<StagingDir, UsedMaskName>>][c] = 1}
    ELSE {}

\* C30: the numerator of the progress reported before a chunk is the number of
\* voxels whose results are staged and marked completed at that moment, from
\* this run and from earlier runs, also when the model restricts the run to a
\* subset of the mask.
C30_ProgressCountsCompleted ==
    pc = "process" => TotalProcessed = Cardinality(MarkedCells)

\* ---- the staged parameter file, continued (SpecStore)

\* C25: writing the same chunk again with the same results leaves the staged
\* file and the completed mask as the first write left them; a write over
\* cells an earlier write filled leaves at each of them the value of the later
\* write (as the staged dtype holds it; the value itself when the array has
\* the dtype and width of the file), with the cell marked completed.
C25_IdempotentOverwrite ==
    lastWrite.outcome = "written" =>
        LET d == lastWrite.dtype
            w == lastWrite.width
            v == lastWrite.value
            cs == lastWrite.cells
        IN  /\ WriteOutcome(OpenMemmap(staged, d, w), d, w) = "written"
            /\ AssignRows(OpenMemmap(staged, d, w), cs, v) = staged
            /\ usedCells \cup cs = usedCells
            /\ \A c \in cs :
                  staged.data[c] = [k \in 1 .. staged.width |-> Cast(v, staged.dtype)]
            /\ (d = lastWrite.fileDtype /\ w = lastWrite.fileWidth) =>
                  \A c \in cs : staged.data[c] = [k \in 1 .. w |-> v]
            /\ \A c \in Cells \ cs : staged.data[c] =
                  (IF lastWrite.staged THEN lastWrite.before[c]
                   ELSE [k \in 1 .. staged.width |-> 0])

\* C25 witness: a write of the file's own dtype and width over a cell that an
\* earlier write had filled with another value.
C25_Witness ==
    /\ lastWrite.outcome = "written"
    /\ lastWrite.staged
    /\ lastWrite.dtype = lastWrite.fileDtype
    /\ lastWrite.width = lastWrite.fileWidth
    /\ \E c \in lastWrite.cells :
          /\ lastWrite.before[c] # staged.data[c]
          /\ lastWrite.before[c][1] # 0
          /\ staged.data[c][1] = lastWrite.value

\* ---- batch fitting (SpecBatch)

\* C21: when BatchFitting.run has returned and recalculate was true, every
\* configured model has been fitted anew for every selected subject (whose
\* protocol suffices for the model), also when all its outputs existed.
C21_RecalculateRefitsAll ==
    (bpc = "done" /\ batchRecalculate /\ solverFails = NoFailure) =>
        \A i \in 1 .. Len(subjects) : \A m \in ModelNames :
            protocolOK[subjects[i]][m] =>
                \E k \in 1 .. Len(batchLog) :
                    batchLog[k] = [subject |-> subjects[i], model |-> m,
                                   outcome |-> "fitted"]

\* ---- exceptions and the state they leave (Spec)

\* C34: when worker.process raises during a chunk, run exits with
\* problems_to_analyze still set to that chunk's indices; old_setting is not
\* put back.
C34_SelectionLeftOnChunk ==
    (pc = "aborted" /\ current # <<>>) =>
        /\ pta = Selection(current)
        /\ pta # NoSelection
        /\ (oldSetting # Selection(current) => pta # oldSetting)

\* C34 witness: a run aborted in worker.process over a model whose selection
\* was None when run was called.
C34_Witness ==
    /\ pc = "aborted"
    /\ current # <<>>
    /\ startPta = NoSelection
    /\ oldSetting = NoSelection
    /\ pta = Selection(current)

\* C38: when worker.combine raises, run ends with the temporary directory, the
\* staged results and the completed-voxel mask in place, and a following run
\* with recalculate=false finds no voxel left to process and goes straight to
\* combine.
C38_CombineRaiseKeepsStaged ==
    /\ [][CombineRaise => (tmpExists' /\ tmpFiles' = tmpFiles)]_vars
    /\ []((pc = "aborted" /\ raisedIn \in {"maps", "move"}) =>
            /\ tmpExists
            /\ \A r \in VoxelsOf(processLog) :
                  /\ lookupFile.rows[r] \in MarkedCells
                  /\ \A p \in Params :
                        tmpFiles[<<StagingDir, p>>][lookupFile.rows[r]] = Solve(p, r))
    /\ [][(StartRun /\ pc = "aborted" /\ raisedIn \in {"maps", "move"} /\ ~recalculate')
            => (totalRoi' = <<>> /\ chunks' = <<>>)]_vars

\* C39: the completed-voxel mask only grows while chunks are processed: no
\* step of a chunk (entering it, worker.process returning or raising) clears a
\* mark, and a mark disappears only in the wipe of a run started with
\* recalculate=true or with the temporary directory removed after combine.
C39_MaskOnlyGrows ==
    [][/\ (EnterChunk \/ ProcessReturn \/ ProcessRaise \/ CombineRaise)
            => MarkedCells \subseteq MarkedCells'
       /\ ~(MarkedCells \subseteq MarkedCells')
            => ((StartRun /\ recalculate') \/ Combine)]_vars

\* C39 witness: a run with recalculate=false started on the marks an aborted
\* run left, and added the marks of a further chunk to them.
C39_Witness ==
    /\ runs >= 2
    /\ ~recalculate
    /\ prev.status = "aborted"
    /\ ~startedFresh
    /\ pc = "chunks"
    /\ Len(processLog) = 1
    /\ \E c \in MarkedCells : c \notin {lookupFile.rows[r] : r \in VoxelsOf(processLog)}
    /\ \A r \in VoxelsOf(processLog) : lookupFile.rows[r] \in MarkedCells

\* C33: FittingProcessingWorker: in every state of the temporary directory,
\* those left by a chunk write interrupted between two of its file writes
\* included, every voxel marked in the completed-voxel mask has its result in
\* the staged file of every parameter.
C33_MarkedHaveAllResults ==
    workerKind = "fit" =>
        \A c \in MarkedCells : \A p \in Params :
            /\ <<RootDir, p>> \in DOMAIN tmpFiles
            /\ \E r \in DOMAIN lookupFile.rows :
                  /\ lookupFile.rows[r] = c
                  /\ tmpFiles[<<RootDir, p>>][c] = Solve(p, r)

\* C33 witness: a fitting run interrupted in its second chunk after one of the
\* two parameter files was written: the first chunk is marked and complete,
\* the second has a value in one file only and is not marked.
C33_Witness ==
    /\ workerKind = "fit"
    /\ pc = "aborted"
    /\ raisedIn = "process"
    /\ Len(processLog) = 1
    /\ \A r \in Range(processLog[1]) : lookupFile.rows[r] \in MarkedCells
    /\ \E r \in Range(current) :
          /\ lookupFile.rows[r] \notin MarkedCells
          /\ tmpFiles[<<RootDir, "p1">>][lookupFile.rows[r]] = Solve("p1", r)
          /\ tmpFiles[<<RootDir, "p2">>][lookupFile.rows[r]] = 0

\* ---- the loop body for any chunk (SpecChunk)

\* The value of a file at an index, zero where there is no such file.
ValueAt(files, q, i) == IF q \in DOMAIN files THEN files[q][i] ELSE 0

\* C32: worker.process for an empty chunk is a no-op for both workers: it
\* returns, no cell becomes marked, no staged value changes (a file it creates
\* holds zeros only), and it returns an empty result, or the
\* SampleChainNotStored object for a sampling worker that stores no samples.
C32_EmptyChunkNoOp ==
    [][(RunOnChunk /\ processLog' = Append(processLog, <<>>)) =>
          /\ MarkedCells' = MarkedCells
          /\ \A q \in DOMAIN tmpFiles' :
                \A i \in DOMAIN tmpFiles'[q] :
                    tmpFiles'[q][i] = ValueAt(tmpFiles, q, i)
          /\ DOMAIN tmpFiles \subseteq DOMAIN tmpFiles'
          /\ LET res == processResults'[Len(processResults')]
             IN  IF workerKind = "sample" /\ ~storeSamples
                 THEN res = SampleChainNotStored
                 ELSE /\ res.kind = (IF workerKind = "fit" THEN "maps" ELSE "samples")
                      /\ \A q \in DOMAIN res.data : DOMAIN res.data[q] = {}]_vars

\* C32 witness: worker.process returned for an empty chunk after a chunk with
\* voxels was staged and marked.
C32_Witness ==
    /\ Len(processLog) = 2
    /\ processLog[1] # <<>>
    /\ processLog[2] = <<>>
    /\ MarkedCells # {}
    /\ processResults[2].kind # "none"

\* ---- combine, task by task (SpecCombine)

\* C31: each write-out task of combine reads only the staged file of its own
\* map and writes only the artifact of its own map, so that in every
\* interleaving of the tasks, once all have finished, the destination holds
\* for every staged map exactly the staged content and everything else in it
\* is as it was.
C31_WriteOutTasksIndependent ==
    /\ [][\A q \in DOMAIN taskPc :
            TaskLoad(q) =>
                /\ taskData'[q] = tmpFiles[q]
                /\ \A x \in DOMAIN taskData \ {q} : taskData'[x] = taskData[x]
                /\ outFiles' = outFiles
                /\ tmpFiles' = tmpFiles]_vars
    /\ [][\A q \in DOMAIN taskPc :
            TaskWrite(q) =>
                /\ tmpFiles' = tmpFiles
                /\ outFiles'[q] = tmpFiles[q]
                /\ \A x \in DOMAIN outFiles' \ {q} :
                      x \in DOMAIN outFiles /\ outFiles'[x] = outFiles[x]]_vars
    /\ []((pc = "combine" /\ \A q \in DOMAIN taskPc : taskPc[q] = "written") =>
            /\ outFiles = CombineVolumes(outFiles, tmpFiles, StagingDir)
            /\ \A x \in DOMAIN outFiles \ DOMAIN taskPc :
                  x = OldMap /\ outFiles[x] = ZeroVolume)

\* C31 witness: three write-out tasks finished over a destination that held
\* earlier maps, which they replaced.
C31_Witness ==
    /\ pc = "combine"
    /\ Cardinality(DOMAIN taskPc) = 3
    /\ \A q \in DOMAIN taskPc : taskPc[q] = "written"
    /\ OldMap \in DOMAIN outFiles
    /\ \E q \in DOMAIN taskPc : outFiles[q] # ZeroVolume

\* ---- cascade fitting, continued (SpecFit)

\* C35: with recalculate=false every single-model stage of the cascade, nested
\* or not, is run with recalc=false whatever only_recalculate_last is, and no
\* stage removes an output directory: a directory that existed still exists,
\* and complete output stays complete.
C35_NoRecalculateNoRemoval ==
    ~fitRecalc =>
        /\ \A i \in DOMAIN stageLog :
              /\ ~stageLog[i].recalc
              /\ ~stageLog[i].removed
              /\ stageLog[i].dir # "absent" => stageLog[i].dirAfter # "absent"
              /\ stageLog[i].dir = "complete" => stageLog[i].dirAfter = "complete"
        /\ \A i \in DOMAIN getNextLog : ~getNextLog[i].subRecalc
        /\ fitRuns > 0 =>
              \A m \in Leaves :
                  /\ startOut[m] # "absent" => outDir[m] # "absent"
                  /\ startOut[m] = "complete" => outDir[m] = "complete"

\* C35 witness: a nested cascade evaluated to its end with recalculate=false
\* and only_recalculate_last=true over existing output of its last stage.
C35_Witness ==
    /\ fpc = "returned"
    /\ ~fitRecalc
    /\ fitOnlyLast
    /\ shape \in {"nestFirst", "nestLast"}
    /\ Len(stageLog) = 3
    /\ startOut["C"] = "complete"
    /\ stageLog[3].outcome = "loaded"

\* C36: with recalculate=true and only_recalculate_last=true at most one
\* single-model stage is run with recalc=true and no stage is run after it;
\* in an evaluation that starts with every cascade at its first stage and runs
\* to its end, exactly one stage is run with recalc=true, the last stage
\* reached, whatever the nesting.
C36_OnlyLastStageRecalculated ==
    (fitRecalc /\ fitOnlyLast) =>
        /\ \A i \in DOMAIN stageLog : stageLog[i].recalc => i = Len(stageLog)
        /\ (fpc = "returned" /\ CleanStart) =>
              /\ Len(stageLog) = Cardinality(LeavesOf(shape))
              /\ stageLog[Len(stageLog)].recalc
              /\ stageLog[Len(stageLog)].outcome = "fitted"
              /\ Cardinality({i \in DOMAIN stageLog : stageLog[i].recalc}) = 1

\* C36 witness: a cascade whose last stage is itself a cascade, evaluated to
\* its end over complete outputs: two stages loaded, the last one fitted anew.
C36_Witness ==
    /\ fpc = "returned"
    /\ fitRecalc
    /\ fitOnlyLast
    /\ CleanStart
    /\ shape = "nestLast"
    /\ \A m \in Leaves : startOut[m] = "complete"
    /\ Len(stageLog) = 3
    /\ stageLog[1].outcome = "loaded"
    /\ stageLog[2].outcome = "loaded"
    /\ stageLog[3].removed

\* C37: fit_single_model called with recalculate=true for a model whose
\* protocol is insufficient raises ProtocolProblemError with nothing removed:
\* the output directory is what it was and the solver is not invoked.
C37_InsufficientRaisesBeforeRemoval ==
    \A i \in DOMAIN stageLog :
        (stageLog[i].recalc /\ ~stageLog[i].sufficient) =>
            /\ stageLog[i].outcome = "raised"
            /\ ~stageLog[i].removed
            /\ stageLog[i].dirAfter = stageLog[i].dir
            /\ i = Len(stageLog)
            /\ fpc = "raised"
            /\ outDir[stageLog[i].name] = stageLog[i].dir

\* C37 witness: a stage with complete output run with recalc=true and an
\* insufficient protocol.
C37_Witness ==
    /\ fpc = "raised"
    /\ stageLog # <<>>
    /\ stageLog[Len(stageLog)].recalc
    /\ ~stageLog[Len(stageLog)].sufficient
    /\ stageLog[Len(stageLog)].dir = "complete"
    /\ outDir[stageLog[Len(stageLog)].name] = "complete"

\* ---- batch fitting, continued (SpecBatch)

\* The position of a model in the configured list (0 for none).
ModelIndex(m) ==
    IF m \in ModelNames THEN CHOOSE i \in 1 .. Len(BatchModels) : BatchModels[i] = m
    ELSE 0

\* C40: a ProtocolProblemError of one configured model of a subject is caught
\* for that model: the next model of the list is run for the subject all the
\* same, and is fitted when nothing of its own prevents it; any other
\* exception ends the subject: no later model is run for it.
C40_ProtocolErrorPerModel ==
    \A k \in DOMAIN batchLog :
        LET e == batchLog[k]
            i == ModelIndex(e.model)
        IN  /\ (e.outcome = "raised" /\ i < Len(BatchModels)) =>
                  /\ k < Len(batchLog)
                  /\ batchLog[k + 1].subject = e.subject
                  /\ batchLog[k + 1].model = BatchModels[i + 1]
                  /\ (/\ protocolOK[e.subject][BatchModels[i + 1]]
                      /\ solverFails # <<e.subject, BatchModels[i + 1]>>)
                        => /\ batchLog[k + 1].outcome \in {"fitted", "loaded"}
                           /\ batchRecalculate => batchLog[k + 1].outcome = "fitted"
            /\ e.outcome = "error" =>
                  /\ k = Len(batchLog)
                  /\ bpc = "raised"

\* C40 witness: the first model of a subject raised ProtocolProblemError and
\* the second was fitted.
C40_Witness ==
    \E k \in DOMAIN batchLog :
        /\ k < Len(batchLog)
        /\ batchLog[k].outcome = "raised"
        /\ batchLog[k].model = BatchModels[1]
        /\ batchLog[k + 1].subject = batchLog[k].subject
        /\ batchLog[k + 1].model = BatchModels[2]
        /\ batchLog[k + 1].outcome = "fitted"

====
